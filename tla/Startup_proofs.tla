---------------------------- MODULE Startup_proofs ----------------------------
(***************************************************************************)
(* Proofs about the decompression of debuginfo files, for any files and    *)
(* any size of the decoders' buffers, and about the arguments clang gets,  *)
(* for any command line.                                                   *)
(***************************************************************************)
EXTENDS Startup, SequenceTheorems, WellFoundedInduction, TLAPS

\* The states in which there is no buffer, and those in which there may be one.
Idle == {"none", "open", "failed", "done"}
Working == {"read", "inflate", "zstd", "finish", "throw", "overread"}

ElfTypeOK ==
  /\ file \in Files \cup {NoFile}
  /\ state \in Idle \cup Working \cup {"alive"}
  /\ chunk \in 0 .. Len(file.yields) /\ pending \in Nat /\ total_out \in Nat
  /\ DecompressedObj \in Seq(Nat)
  /\ dest_size \in Nat /\ dest_current \in Nat

\* What is open or allocated in which state.
Resources ==
  /\ state \in Idle => /\ decoder = "none" /\ image = 0
                       /\ dest_size = 0 /\ dest_current = 0 /\ DecompressedObj = <<>>
  /\ state \in {"none", "done"} => ElfFd = "closed"
  /\ state = "failed" => ElfFd = "closed" \/ file.type = "empty"
  /\ state = "open" => total_out = 0
  /\ state \in {"throw", "alive"} => decoder = "none"

\* There is always room for one more buffer of the decoder after doubling once.
Capacity ==
  /\ state \in Working => CHUNK <= dest_size
  /\ dest_current <= dest_size
  /\ Len(DecompressedObj) <= dest_current

\* gzip's data lies in the buffer without a gap.
Gapless ==
  /\ state = "inflate" => file.type = "GZ"
  /\ state = "zstd" => file.type # "GZ"
  /\ file.type = "GZ" /\ dest_size # 0 =>
       /\ dest_current = total_out
       /\ DecompressedObj = [k \in 1 .. total_out |-> k]

ElfInv == ElfTypeOK /\ Resources /\ Capacity /\ Gapless

-----------------------------------------------------------------------------
\* Where the parts of what memcpy() leaves behind are.
LEMMA WrittenParts ==
  ASSUME ElfTypeOK, NEW at \in Nat, Len(DecompressedObj) <= at, NEW n \in Nat
  PROVE  /\ Written(at, n) \in Seq(Nat)
         /\ Len(Written(at, n)) = at + n
         /\ \A k \in 1 .. Len(DecompressedObj) : Written(at, n)[k] = DecompressedObj[k]
         /\ \A k \in at + 1 .. at + n : Written(at, n)[k] = total_out + (k - at)
<1> DEFINE l == Len(DecompressedObj)
           gap == Blank(at - l)
           new == [k \in 1 .. n |-> total_out + k]
           front == DecompressedObj \o gap
<1>1. DecompressedObj \in Seq(Nat) /\ l \in Nat /\ at - l \in Nat /\ total_out \in Nat
  BY DEF ElfTypeOK
<1>2. gap \in Seq(Nat) /\ Len(gap) = at - l
  BY <1>1 DEF Blank
<1>3. new \in Seq(Nat) /\ Len(new) = n
  BY <1>1
<1>4. \A k \in at + 1 .. at + n : new[k - at] = total_out + (k - at)
  OBVIOUS
<1>5. Written(at, n) = front \o new
  BY DEF Written
<1> HIDE DEF gap, new
<1>6. /\ front \in Seq(Nat) /\ Len(front) = at
      /\ \A k \in 1 .. l : front[k] = DecompressedObj[k]
  BY <1>1, <1>2, ConcatProperties
<1> HIDE DEF front
<1>7. /\ front \o new \in Seq(Nat) /\ Len(front \o new) = at + n
      /\ \A k \in 1 .. at + n :
           (front \o new)[k] = IF k <= at THEN front[k] ELSE new[k - at]
  BY <1>3, <1>6, ConcatProperties
<1>8. \A k \in 1 .. l : Written(at, n)[k] = DecompressedObj[k]
  <2>1. \A k \in 1 .. l : k \in 1 .. at + n /\ k <= at
    BY <1>1
  <2>2. QED
    BY <2>1, <1>5, <1>6, <1>7
<1>9. \A k \in at + 1 .. at + n : Written(at, n)[k] = total_out + (k - at)
  <2>1. \A k \in at + 1 .. at + n : k \in 1 .. at + n /\ ~(k <= at)
    OBVIOUS
  <2>2. QED
    BY <2>1, <1>4, <1>5, <1>7
<1>10. QED
  BY <1>5, <1>7, <1>8, <1>9

\* Data that is appended to a buffer without a gap leaves none.
LEMMA WrittenGapless ==
  ASSUME ElfTypeOK, NEW n \in Nat,
         DecompressedObj = [k \in 1 .. total_out |-> k]
  PROVE  Written(total_out, n) = [k \in 1 .. total_out + n |-> k]
<1>1. total_out \in Nat /\ DecompressedObj \in Seq(Nat)
  BY DEF ElfTypeOK
<1>2. Len(DecompressedObj) = total_out
  BY <1>1
<1> DEFINE w == Written(total_out, n)
<1> HIDE DEF w
<1>3. /\ w \in Seq(Nat) /\ Len(w) = total_out + n
      /\ \A k \in 1 .. total_out : w[k] = DecompressedObj[k]
      /\ \A k \in total_out + 1 .. total_out + n : w[k] = total_out + (k - total_out)
  <2>1. total_out + (total_out - total_out) = total_out /\ Len(DecompressedObj) <= total_out
    BY <1>1, <1>2
  <2>2. QED
    BY <1>1, <1>2, <2>1, WrittenParts DEF w
<1>4. \A k \in 1 .. total_out + n : w[k] = k
  BY <1>1, <1>3
<1>5. w = [k \in 1 .. Len(w) |-> w[k]]
  BY <1>3
<1>6. QED
  BY <1>3, <1>4, <1>5 DEF w

\* What a decoder hands out fits in its own buffer.
LEMMA LeastBounds ==
  ASSUME NEW a \in Nat, NEW b \in Nat
  PROVE  Least(a, b) \in Nat /\ Least(a, b) <= a /\ Least(a, b) <= b
BY DEF Least

-----------------------------------------------------------------------------
\* What is known of a file, be it one of the disk or none.
LEMMA FileFacts ==
  ASSUME NEW f \in Files \cup {NoFile}
  PROVE  f.type \in FileTypes /\ f.yields \in Seq(Nat)
<1>1. NoFile.type \in FileTypes /\ NoFile.yields \in Seq(Nat)
  <2>1. NoFile.type = "missing" /\ NoFile.yields = <<>>
    BY DEF NoFile
  <2>2. <<>> \in Seq(Nat)
    OBVIOUS
  <2>3. QED
    BY <2>1, <2>2 DEF FileTypes
<1>2. QED
  BY <1>1, FilesOK

\* A step that leaves the file and its buffer alone keeps the invariant.
LEMMA FrameElfInv ==
  ASSUME ElfInv, UNCHANGED elfObjVars
  PROVE  ElfInv'
BY DEF ElfInv, ElfTypeOK, Resources, Capacity, Gapless, elfObjVars, bufVars, inVars

LEMMA OpenElfInv ==
  ASSUME ElfInv, NEW f \in Files \cup {NoFile}, Open(f)
  PROVE  ElfInv'
<1>1. /\ state \in Idle /\ state' \in {"failed", "open"} /\ file' = f
      /\ chunk' = 0 /\ pending' = 0 /\ total_out' = 0
      /\ UNCHANGED <<decoder, DecompressedObj, dest_size, dest_current, image>>
  BY DEF Open, bufVars, Idle
<1>2. /\ decoder = "none" /\ image = 0 /\ dest_size = 0 /\ dest_current = 0
      /\ DecompressedObj = <<>>
  BY <1>1 DEF ElfInv, Resources
<1>3. state' = "failed" => ElfFd' = "closed" \/ file'.type = "empty"
  BY FileFacts DEF Open, Get_File_Type, FileTypes
<1>4. ElfTypeOK'
  BY <1>1, <1>2, FileFacts DEF ElfInv, ElfTypeOK, Idle
<1>5. Resources'
  BY <1>1, <1>2, <1>3 DEF Resources, Idle
<1>6. Capacity' /\ Gapless'
  BY <1>1, <1>2 DEF Capacity, Gapless, Working
<1>7. QED
  BY <1>4, <1>5, <1>6 DEF ElfInv

LEMMA BeginElfElfInv ==
  ASSUME ElfInv, BeginElf
  PROVE  ElfInv'
<1>1. /\ state = "open" /\ file.type # "GZ" /\ state' \in {"alive", "failed"}
      /\ UNCHANGED <<file, decoder, chunk, pending, total_out,
                     DecompressedObj, dest_size, dest_current>>
  BY DEF BeginElf, Compressed, bufVars, inVars
<1>2. state' = "failed" => image' = image /\ ElfFd' = "closed"
  BY DEF BeginElf
<1>3. ElfTypeOK'
  BY <1>1 DEF ElfInv, ElfTypeOK, Idle
<1>4. Resources'
  BY <1>1, <1>2 DEF ElfInv, Resources, Idle
<1>5. Capacity' /\ Gapless'
  BY <1>1 DEF ElfInv, Capacity, Gapless, Working
<1>6. QED
  BY <1>3, <1>4, <1>5 DEF ElfInv

LEMMA BeginDecompressElfInv ==
  ASSUME ElfInv, BeginDecompress
  PROVE  ElfInv'
<1>1. /\ state = "open" /\ state' = "read" /\ dest_size' = CHUNK
      /\ UNCHANGED <<file, chunk, pending, total_out, DecompressedObj, dest_current>>
  BY DEF BeginDecompress, inVars
<1>2. dest_current = 0 /\ DecompressedObj = <<>> /\ total_out = 0
  BY <1>1 DEF ElfInv, Resources, Idle
<1>3. CHUNK \in Nat
  BY CHUNKOK
<1>4. ElfTypeOK'
  BY <1>1, <1>3 DEF ElfInv, ElfTypeOK, Working
<1>5. Resources'
  BY <1>1 DEF Resources, Idle
<1>6. Capacity'
  BY <1>1, <1>2, <1>3 DEF Capacity
<1>7. Gapless'
  <2>1. <<>> = [k \in 1 .. 0 |-> k]
    OBVIOUS
  <2>2. QED
    BY <1>1, <1>2, <2>1 DEF Gapless
<1>8. QED
  BY <1>4, <1>5, <1>6, <1>7 DEF ElfInv

LEMMA ReadElfInv ==
  ASSUME ElfInv, Read
  PROVE  ElfInv'
<1>1. /\ state = "read" /\ state' \in {"overread", "finish", "inflate", "zstd"}
      /\ state' = "inflate" => file.type = "GZ"
      /\ state' = "zstd" => file.type # "GZ"
      /\ UNCHANGED <<file, decoder, total_out, DecompressedObj, dest_size, dest_current, image, ElfFd>>
  BY DEF Read, AfterLast, bufVars
<1>2. chunk' \in 0 .. Len(file.yields) /\ pending' \in Nat
  <2>1. CASE AtEnd
    BY <2>1 DEF Read, ElfInv, ElfTypeOK
  <2>2. CASE ~AtEnd
    <3>1. chunk' = chunk + 1 /\ pending' = pending + file.yields[chunk']
      BY <2>2 DEF Read
    <3>2. file.yields \in Seq(Nat)
      BY FileFacts DEF ElfInv, ElfTypeOK
    <3>3. QED
      BY <2>2, <3>1, <3>2 DEF ElfInv, ElfTypeOK, AtEnd
  <2>3. QED
    BY <2>1, <2>2
<1>3. ElfTypeOK'
  BY <1>1, <1>2 DEF ElfInv, ElfTypeOK, Working
<1>4. Resources'
  BY <1>1 DEF Resources, Idle
<1>5. Capacity' /\ Gapless'
  BY <1>1 DEF ElfInv, Capacity, Gapless, Working
<1>6. QED
  BY <1>3, <1>4, <1>5 DEF ElfInv

\* A decoder that finds an error is freed before the exception.
LEMMA ThrowElfInv ==
  ASSUME ElfInv, state \in {"inflate", "zstd"}, Throw
  PROVE  ElfInv'
<1>1. /\ state' = "throw" /\ decoder' = "none"
      /\ UNCHANGED <<file, chunk, pending, total_out, DecompressedObj, dest_size,
                     dest_current, image, ElfFd>>
  BY DEF Throw, inVars, bufVars
<1>2. ElfTypeOK'
  BY <1>1 DEF ElfInv, ElfTypeOK, Working
<1>3. Resources'
  BY <1>1 DEF Resources, Idle
<1>4. Capacity' /\ Gapless'
  BY <1>1 DEF ElfInv, Capacity, Gapless, Working
<1>5. QED
  BY <1>2, <1>3, <1>4 DEF ElfInv

\* Doubling the buffer once makes room for what a decoder hands out.
LEMMA RoomSuffices ==
  ASSUME NEW need \in Nat, need <= CHUNK, CHUNK <= dest_size,
         dest_size \in Nat, dest_current \in Nat, dest_current <= dest_size
  PROVE  /\ Room(need, dest_current) \in Nat
         /\ dest_size <= Room(need, dest_current)
         /\ dest_current + need <= Room(need, dest_current)
<1>1. CHUNK \in Nat
  BY CHUNKOK
<1>2. CASE need > dest_size - dest_current
  BY <1>1, <1>2 DEF Room
<1>3. CASE ~(need > dest_size - dest_current)
  BY <1>1, <1>3 DEF Room
<1>4. QED
  BY <1>2, <1>3

LEMMA InflateElfInv ==
  ASSUME ElfInv, Inflate
  PROVE  ElfInv'
<1>1. CASE BadData /\ Throw
  BY <1>1, ThrowElfInv DEF Inflate
<1>2. CASE ~(BadData /\ Throw)
  <2> DEFINE have == Least(CHUNK, pending)
  <2>1. /\ state = "inflate" /\ state' \in {"inflate", "finish", "read"}
        /\ pending' = pending - have /\ total_out' = total_out + have
        /\ dest_size' = Room(have, dest_current)
        /\ DecompressedObj' = Written(dest_current, have)
        /\ dest_current' = dest_current + have
        /\ UNCHANGED <<file, ElfFd, decoder, chunk, image>>
    BY <1>2 DEF Inflate, Handed, Store
  <2>2. /\ have \in Nat /\ have <= CHUNK /\ have <= pending
        /\ pending \in Nat /\ total_out \in Nat /\ CHUNK \in Nat
        /\ dest_size \in Nat /\ dest_current \in Nat
    BY CHUNKOK, LeastBounds DEF ElfInv, ElfTypeOK
  <2>3. CHUNK <= dest_size /\ dest_current <= dest_size /\ Len(DecompressedObj) <= dest_current
    BY <2>1 DEF ElfInv, Capacity, Working
  <2> HIDE DEF have
  <2>4. /\ dest_size' \in Nat /\ dest_size <= dest_size' /\ dest_current' <= dest_size'
    BY <2>1, <2>2, <2>3, RoomSuffices
  <2>5. DecompressedObj' \in Seq(Nat) /\ Len(DecompressedObj') = dest_current'
    BY <2>1, <2>2, <2>3, WrittenParts DEF ElfInv
  <2>6. ElfTypeOK'
    <3>1. pending' \in Nat /\ total_out' \in Nat /\ dest_current' \in Nat
      BY <2>1, <2>2
    <3>2. QED
      BY <2>1, <2>4, <2>5, <3>1 DEF ElfInv, ElfTypeOK, Working
  <2>7. Resources'
    BY <2>1 DEF Resources, Idle
  <2>8. Capacity'
    BY <2>1, <2>2, <2>3, <2>4, <2>5 DEF Capacity
  <2>9. Gapless'
    <3>1. file.type = "GZ" /\ dest_size # 0
      BY <2>1, <2>2, <2>3, CHUNKOK DEF ElfInv, Gapless
    <3>2. dest_current = total_out /\ DecompressedObj = [k \in 1 .. total_out |-> k]
      BY <3>1 DEF ElfInv, Gapless
    <3>3. DecompressedObj' = [k \in 1 .. total_out + have |-> k]
      BY <2>1, <2>2, <3>2, WrittenGapless DEF ElfInv
    <3>4. QED
      BY <2>1, <3>1, <3>2, <3>3 DEF Gapless
  <2>10. QED
    BY <2>6, <2>7, <2>8, <2>9 DEF ElfInv
<1>3. QED
  BY <1>1, <1>2

LEMMA DecompressElfInv ==
  ASSUME ElfInv, Decompress
  PROVE  ElfInv'
<1>1. CASE BadData /\ Throw
  BY <1>1, ThrowElfInv DEF Decompress
<1>2. CASE ~(BadData /\ Throw)
  <2> DEFINE pos == Least(CHUNK, pending)
  <2>1. /\ state = "zstd" /\ state' \in {"zstd", "read"}
        /\ pending' = pending - pos /\ total_out' = total_out + pos
        /\ dest_size' = Room(CHUNK, dest_current)
        /\ DecompressedObj' = Written(dest_current, pos)
        /\ dest_current' = dest_current + CHUNK
        /\ UNCHANGED <<file, ElfFd, decoder, chunk, image>>
    BY <1>2 DEF Decompress, Handed
  <2>2. /\ pos \in Nat /\ pos <= CHUNK /\ pos <= pending
        /\ pending \in Nat /\ total_out \in Nat /\ CHUNK \in Nat
        /\ dest_size \in Nat /\ dest_current \in Nat
    BY CHUNKOK, LeastBounds DEF ElfInv, ElfTypeOK
  <2>3. CHUNK <= dest_size /\ dest_current <= dest_size /\ Len(DecompressedObj) <= dest_current
    BY <2>1 DEF ElfInv, Capacity, Working
  <2> HIDE DEF pos
  <2>4. /\ dest_size' \in Nat /\ dest_size <= dest_size' /\ dest_current' <= dest_size'
    BY <2>1, <2>2, <2>3, RoomSuffices
  <2>5. DecompressedObj' \in Seq(Nat) /\ Len(DecompressedObj') = dest_current + pos
    BY <2>1, <2>2, <2>3, WrittenParts DEF ElfInv
  <2>6. ElfTypeOK'
    <3>1. pending' \in Nat /\ total_out' \in Nat /\ dest_current' \in Nat
      BY <2>1, <2>2
    <3>2. QED
      BY <2>1, <2>4, <2>5, <3>1 DEF ElfInv, ElfTypeOK, Working
  <2>7. Resources'
    BY <2>1 DEF Resources, Idle
  <2>8. Capacity'
    BY <2>1, <2>2, <2>3, <2>4, <2>5 DEF Capacity
  <2>9. Gapless'
    BY <2>1 DEF ElfInv, Gapless
  <2>10. QED
    BY <2>6, <2>7, <2>8, <2>9 DEF ElfInv
<1>3. QED
  BY <1>1, <1>2

LEMMA FinishElfInv ==
  ASSUME ElfInv, Finish
  PROVE  ElfInv'
<1>1. /\ state = "finish" /\ state' \in {"throw", "alive"} /\ decoder' = "none"
      /\ UNCHANGED <<file, chunk, pending, total_out, DecompressedObj, dest_size, dest_current>>
  BY DEF Finish, inVars, bufVars
<1>2. ElfTypeOK'
  BY <1>1 DEF ElfInv, ElfTypeOK, Working
<1>3. Resources'
  BY <1>1 DEF Resources, Idle
<1>4. Capacity' /\ Gapless'
  BY <1>1 DEF ElfInv, Capacity, Gapless, Working
<1>5. QED
  BY <1>2, <1>3, <1>4 DEF ElfInv

\* The destructor leaves nothing behind, wherever it is called.
LEMMA DestroyedElfInv ==
  ASSUME ElfInv, state \in {"throw", "alive"}, Destroyed, state' \in {"failed", "done"},
         UNCHANGED <<file, decoder, inVars>>
  PROVE  ElfInv'
<1>1. /\ decoder' = "none" /\ image' = 0 /\ ElfFd' = "closed"
      /\ DecompressedObj' = <<>> /\ dest_size' = 0 /\ dest_current' = 0
      /\ UNCHANGED <<file, chunk, pending, total_out>>
  BY DEF Destroyed, ElfInv, Resources, inVars
<1>2. ElfTypeOK'
  BY <1>1 DEF ElfInv, ElfTypeOK, Idle
<1>3. Resources'
  BY <1>1 DEF Resources, Idle
<1>4. Capacity' /\ Gapless'
  BY <1>1 DEF Capacity, Gapless, Working
<1>5. QED
  BY <1>2, <1>3, <1>4 DEF ElfInv

LEMMA ElfNextElfInv ==
  ASSUME ElfInv, ElfNext
  PROVE  ElfInv'
<1>1. CASE Catch
  BY <1>1, DestroyedElfInv DEF Catch
<1>2. CASE Analyzed
  BY <1>2, DestroyedElfInv DEF Analyzed
<1>3. QED
  BY <1>1, <1>2, BeginElfElfInv, BeginDecompressElfInv, ReadElfInv, InflateElfInv,
     DecompressElfInv, FinishElfInv DEF ElfNext

-----------------------------------------------------------------------------
\* ElfInv holds throughout, whatever the command line asks for.
LEMMA ElfInvHolds == Spec => []ElfInv
<1>1. Init => ElfInv
  <2> SUFFICES ASSUME Init PROVE ElfInv
    OBVIOUS
  <2>1. /\ file = NoFile /\ state = "none" /\ ElfFd = "closed" /\ decoder = "none"
        /\ chunk = 0 /\ pending = 0 /\ total_out = 0
        /\ DecompressedObj = <<>> /\ dest_size = 0 /\ dest_current = 0 /\ image = 0
    BY DEF Init, ElfInit
  <2>2. NoFile.yields \in Seq(Nat)
    BY FileFacts
  <2>3. ElfTypeOK
    BY <2>1, <2>2 DEF ElfTypeOK, Idle
  <2>4. Resources /\ Capacity /\ Gapless
    BY <2>1 DEF Resources, Capacity, Gapless, Idle, Working
  <2>5. QED
    BY <2>3, <2>4 DEF ElfInv
<1>2. ElfInv /\ [Next]_vars => ElfInv'
  <2> SUFFICES ASSUME ElfInv, [Next]_vars PROVE ElfInv'
    OBVIOUS
  <2>1. CASE OpenNext
    <3>1. PICK n : Open(FileOf(n))
      BY <2>1 DEF OpenNext
    <3>2. FileOf(n) \in Files \cup {NoFile}
      BY DiskOK DEF FileOf
    <3>3. QED
      BY <3>1, <3>2, OpenElfInv
  <2>2. CASE ReadObject
    BY <2>2, ElfNextElfInv DEF ReadObject
  <2>3. CASE Parse \/ OpenFailed \/ BuildAST \/ UNCHANGED vars
    BY <2>3, FrameElfInv DEF Parse, OpenFailed, BuildAST, vars
  <2>4. QED
    BY <2>1, <2>2, <2>3 DEF Next
<1>3. QED
  BY <1>1, <1>2, PTL DEF Spec

\* No decoder ever writes behind the buffer, for any size of the decoders'
\* buffers and any division of a file in chunks; what gzip decompressed is in
\* it without a gap.
THEOREM BufferHoldsPrefixHolds == Spec => []BufferHoldsPrefix
<1>1. ElfInv => BufferHoldsPrefix
  BY DEF ElfInv, ElfTypeOK, Capacity, Gapless, BufferHoldsPrefix
<1>2. QED
  BY <1>1, ElfInvHolds, PTL

\* On every path, exceptions included, decoder, buffer, image and file are gone
\* when the object is, but for the file whose type can not be read.
THEOREM NothingLeftOpenHolds == Spec => []NothingLeftOpen
<1>1. ElfInv => NothingLeftOpen
  BY DEF ElfInv, Resources, NothingLeftOpen, Idle
<1>2. QED
  BY <1>1, ElfInvHolds, PTL

-----------------------------------------------------------------------------
(***************************************************************************)
(* The elements of a sequence at the positions of a set.                   *)
(***************************************************************************)
\* A non-empty set of numbers has a least one.
LEMMA LeastOne ==
  ASSUME NEW S \in SUBSET Nat, S # {}
  PROVE  \E x \in S : \A y \in S : x <= y
<1> DEFINE Less == OpToRel(<, Nat)
<1>1. \A x, y \in Nat : y < x => <<y, x>> \in Less
  BY DEF OpToRel
<1>2. IsWellFoundedOn(Less, Nat)
  BY NatLessThanWellFounded
<1> HIDE DEF Less
<1>3. PICK x \in S : \A y \in S : ~ (<<y, x>> \in Less)
  BY <1>2, WFMin
<1>4. \A y \in S : x <= y
  <2> SUFFICES ASSUME NEW y \in S PROVE x <= y
    OBVIOUS
  <2>1. x \in Nat /\ y \in Nat /\ ~(y < x)
    BY <1>1, <1>3
  <2>2. QED
    BY <2>1
<1>5. QED
  BY <1>4

\* What is shown step by step from 0 holds up to N.
LEMMA UpTo ==
  ASSUME NEW N \in Nat, NEW S, 0 \in S, \A n \in 1..N : n - 1 \in S => n \in S
  PROVE  0..N \subseteq S
<1> DEFINE Bad == {n \in 0..N : n \notin S}
<1>1. SUFFICES ASSUME Bad # {} PROVE FALSE
  OBVIOUS
<1>2. Bad \in SUBSET Nat
  OBVIOUS
<1>3. PICK n \in Bad : \A m \in Bad : n <= m
  <2> HIDE DEF Bad
  <2>1. QED
    BY <1>1, <1>2, LeastOne
<1>4. n \in 1..N /\ n - 1 \in 0..N /\ ~(n <= n - 1)
  BY <1>3
<1>5. n - 1 \in S
  BY <1>3, <1>4
<1>6. QED
  BY <1>3, <1>4, <1>5

ChosenStep(f, s, K, m) ==
  \A n \in 1..m : f[n] = IF n \in K THEN Append(f[n - 1], s[n]) ELSE f[n - 1]

LEMMA ChosenIs ==
  ASSUME NEW T, NEW s \in Seq(T), NEW K
  PROVE  /\ Chosen(s, K)[0] = <<>>
         /\ ChosenStep(Chosen(s, K), s, K, Len(s))
         /\ \A n \in 0..Len(s) : Chosen(s, K)[n] \in Seq(T)
<1> DEFINE N == Len(s)
           Partial(m, f) == f \in [0..m -> Seq(T)] /\ f[0] = <<>> /\ ChosenStep(f, s, K, m)
           Fine == {m \in Nat : \E f : Partial(m, f)}
<1>1. N \in Nat /\ \A n \in 1..N : s[n] \in T
  OBVIOUS
<1>2. 0 \in Fine
  <2> DEFINE f == [n \in 0..0 |-> <<>>]
  <2>1. f \in [0..0 -> Seq(T)] /\ f[0] = <<>>
    OBVIOUS
  <2>2. ChosenStep(f, s, K, 0)
    BY DEF ChosenStep
  <2> HIDE DEF f
  <2>3. QED
    BY <2>1, <2>2
<1>3. ASSUME NEW m \in 1..N, m - 1 \in Fine PROVE m \in Fine
  <2>1. PICK f : Partial(m - 1, f)
    BY <1>3
  <2>2. m \in Nat /\ m - 1 \in 0..(m - 1) /\ s[m] \in T /\ m - 1 \in Nat
    BY <1>1
  <2> DEFINE e == IF m \in K THEN Append(f[m - 1], s[m]) ELSE f[m - 1]
             g == [n \in 0..m |-> IF n = m THEN e ELSE f[n]]
  <2>3. f[m - 1] \in Seq(T)
    BY <2>1, <2>2
  <2>4. e \in Seq(T)
    BY <2>2, <2>3
  <2> HIDE DEF e
  <2>5. \A n \in 0..m : n = m \/ n \in 0..(m - 1)
    BY <2>2
  <2>6. g \in [0..m -> Seq(T)] /\ g[m] = e /\ \A n \in 0..(m - 1) : g[n] = f[n]
    BY <2>1, <2>2, <2>4, <2>5
  <2> HIDE DEF g
  <2>7. g[0] = <<>>
    BY <2>1, <2>2, <2>6
  <2>8. ASSUME NEW n \in 1..m
        PROVE  g[n] = IF n \in K THEN Append(g[n - 1], s[n]) ELSE g[n - 1]
    <3>1. n - 1 \in 0..(m - 1) /\ g[n - 1] = f[n - 1]
      BY <2>2, <2>6
    <3>2. CASE n = m
      BY <3>1, <3>2, <2>6 DEF e
    <3>3. CASE n # m
      <4>1. n \in 1..(m - 1) /\ n \in 0..(m - 1)
        BY <3>3
      <4>2. QED
        BY <2>1, <2>6, <3>1, <4>1 DEF ChosenStep
    <3>4. QED
      BY <3>2, <3>3
  <2>9. Partial(m, g)
    BY <2>6, <2>7, <2>8 DEF ChosenStep
  <2> HIDE DEF Partial
  <2>10. QED
    BY <2>2, <2>9
<1> HIDE DEF Fine
<1>4. N \in Fine
  <2>1. 0..N \subseteq Fine
    BY <1>1, <1>2, <1>3, UpTo
  <2>2. QED
    BY <1>1, <2>1
<1>5. PICK f : Partial(N, f)
  BY <1>4 DEF Fine
<1> DEFINE Is(h) == h = [n \in 0..Len(s) |->
             IF n = 0 THEN <<>> ELSE IF n \in K THEN Append(h[n - 1], s[n]) ELSE h[n - 1]]
<1>6. \A n \in 0..N : n = 0 \/ (n # 0 /\ n \in 1..N)
  BY <1>1
<1>7. Is(f)
  <2>1. \A n \in 0..N : f[n] = IF n = 0 THEN <<>>
                               ELSE IF n \in K THEN Append(f[n - 1], s[n]) ELSE f[n - 1]
    BY <1>5, <1>6 DEF ChosenStep
  <2>2. f = [n \in 0..N |-> f[n]]
    BY <1>5
  <2>3. QED
    BY <2>1, <2>2
<1>8. Chosen(s, K) = CHOOSE h : Is(h)
  BY DEF Chosen
<1>9. Is(Chosen(s, K))
  <2> HIDE DEF Is
  <2>1. QED
    BY <1>7, <1>8
<1> DEFINE c == Chosen(s, K)
<1> HIDE DEF c
<1>10. \A n \in 0..N : c[n] = IF n = 0 THEN <<>>
                             ELSE IF n \in K THEN Append(c[n - 1], s[n]) ELSE c[n - 1]
  <2>1. Is(c)
    BY <1>9 DEF c
  <2>2. QED
    BY <2>1
<1>11. c[0] = <<>> /\ ChosenStep(c, s, K, N)
  BY <1>1, <1>6, <1>10 DEF ChosenStep
<1> DEFINE Q == {k \in 0..N : c[k] \in Seq(T)}
<1>12. 0 \in Q
  <2>1. 0 \in 0..N /\ <<>> \in Seq(T)
    BY <1>1
  <2>2. QED
    BY <1>11, <2>1
<1>13. ASSUME NEW n \in 1..N, n - 1 \in Q PROVE n \in Q
  <2>1. n \in 0..N /\ s[n] \in T
    BY <1>1
  <2>2. PICK d \in Seq(T) : d = c[n - 1]
    BY <1>13
  <2>3. c[n] = d \/ c[n] = Append(d, s[n])
    BY <1>11, <2>2 DEF ChosenStep
  <2>4. c[n] \in Seq(T)
    <3>1. \A x \in T : Append(d, x) \in Seq(T)
      OBVIOUS
    <3>2. QED
      BY <2>1, <2>3, <3>1
  <2>5. QED
    <3> HIDE DEF N
    <3>1. QED
      BY <2>1, <2>4
<1> HIDE DEF Q
<1>14. 0..N \subseteq Q
  BY <1>1, <1>12, <1>13, UpTo
<1>15. QED
  BY <1>11, <1>14 DEF Q, c

\* Chosen only appends: a prefix of the sequence gives a prefix of the result.
Prefix(c, n, m) == Len(c[n]) <= Len(c[m]) /\ \A j \in 1..Len(c[n]) : c[m][j] = c[n][j]

LEMMA ChosenGrows ==
  ASSUME NEW T, NEW s \in Seq(T), NEW K, NEW n \in 0..Len(s)
  PROVE  \A m \in 0..Len(s) : n <= m => Prefix(Chosen(s, K), n, m)
<1> DEFINE c == Chosen(s, K)
           N == Len(s)
           S == {m \in 0..N : n <= m => Prefix(c, n, m)}
<1>1. /\ N \in Nat /\ n \in 0..N
      /\ \A m \in 1..N : c[m] = IF m \in K THEN Append(c[m - 1], s[m]) ELSE c[m - 1]
      /\ \A m \in 0..N : c[m] \in Seq(T) /\ Len(c[m]) \in Nat
  BY ChosenIs DEF ChosenStep
<1> HIDE DEF c, N
<1>2. Prefix(c, n, n)
  BY <1>1 DEF Prefix
<1>3. 0 \in S
  <2>1. n <= 0 => n = 0
    BY <1>1
  <2>2. 0 \in 0..N
    BY <1>1
  <2>3. QED
    BY <1>2, <2>1, <2>2
<1>4. ASSUME NEW m \in 1..N, m - 1 \in S PROVE m \in S
  <2>1. m \in 0..N /\ m - 1 \in 0..N /\ (n <= m => n = m \/ n <= m - 1)
    BY <1>1
  <2>2. CASE n = m
    BY <1>2, <2>1, <2>2
  <2>3. CASE n # m
    <3> SUFFICES ASSUME n <= m PROVE Prefix(c, n, m)
      BY <2>1
    <3>1. Prefix(c, n, m - 1)
      BY <1>4, <2>1, <2>3
    <3>2. PICK d \in Seq(T) : d = c[m - 1] /\ Len(d) \in Nat
      BY <1>1, <2>1
    <3>3. c[m] = d \/ c[m] = Append(d, s[m])
      BY <1>1, <3>2
    <3>4. Len(d) <= Len(c[m]) /\ \A j \in 1..Len(d) : c[m][j] = d[j]
      <4>1. CASE c[m] = d
        BY <3>2, <4>1
      <4>2. CASE c[m] = Append(d, s[m])
        BY <3>2, <4>2
      <4>3. QED
        BY <3>3, <4>1, <4>2
    <3>5. Len(c[n]) \in Nat /\ Len(c[m]) \in Nat
      BY <1>1, <2>1
    <3>6. Len(c[n]) <= Len(d) /\ \A j \in 1..Len(c[n]) : d[j] = c[n][j]
      BY <3>1, <3>2 DEF Prefix
    <3>7. \A j \in 1..Len(c[n]) : j \in 1..Len(d)
      BY <3>2, <3>5, <3>6
    <3>8. QED
      BY <3>2, <3>4, <3>5, <3>6, <3>7 DEF Prefix
  <2>4. QED
    BY <2>2, <2>3
<1>5. 0..N \subseteq S
  <2> HIDE DEF S
  <2>1. QED
    BY <1>1, <1>3, <1>4, UpTo
<1>6. QED
  BY <1>5 DEF c, N

\* Each element of the result has its position in the sequence, and one that is
\* chosen its place in the result.
Places(c, s, K, m) ==
  \A j \in 1..Len(c[m]) : \E p \in K : p \in 1..m /\ Len(c[p]) = j /\ c[m][j] = s[p]

LEMMA ChosenPlaces ==
  ASSUME NEW T, NEW s \in Seq(T), NEW K, NEW m \in 0..Len(s)
  PROVE  Places(Chosen(s, K), s, K, m)
<1> DEFINE c == Chosen(s, K)
           N == Len(s)
           Place(k, j) == \E p \in K : p \in 1..k /\ Len(c[p]) = j /\ c[k][j] = s[p]
           S == {k \in 0..N : \A j \in 1..Len(c[k]) : Place(k, j)}
<1>1. /\ N \in Nat /\ m \in 0..N /\ c[0] = <<>>
      /\ \A k \in 1..N : c[k] = IF k \in K THEN Append(c[k - 1], s[k]) ELSE c[k - 1]
      /\ \A k \in 0..N : c[k] \in Seq(T) /\ Len(c[k]) \in Nat
  BY ChosenIs DEF ChosenStep
<1> HIDE DEF c, N
<1>2. 0 \in S
  <2>1. 0 \in 0..N /\ 1..Len(c[0]) = {}
    BY <1>1
  <2>2. QED
    BY <2>1
<1>3. ASSUME NEW k \in 1..N, k - 1 \in S PROVE k \in S
  <2>1. k \in 0..N /\ k - 1 \in 0..N /\ k \in Nat
    BY <1>1
  <2>2. PICK d \in Seq(T) : d = c[k - 1] /\ Len(d) \in Nat
    BY <1>1, <2>1
  <2>3. \A j \in 1..Len(d) : \E p \in K : p \in 1..k /\ Len(c[p]) = j /\ d[j] = s[p]
    <3>1. \A p \in 1..(k - 1) : p \in 1..k
      BY <2>1
    <3>2. QED
      BY <1>3, <2>2, <3>1
  <2>4. CASE k \notin K
    BY <1>1, <2>1, <2>2, <2>3, <2>4
  <2>5. CASE k \in K
    <3>1. c[k] = Append(d, s[k])
      BY <1>1, <2>2, <2>5
    <3>2. Len(c[k]) = Len(d) + 1 /\ c[k][Len(d) + 1] = s[k] /\ \A j \in 1..Len(d) : c[k][j] = d[j]
      BY <2>2, <3>1
    <3>3. k \in 1..k
      BY <2>1
    <3>4. Place(k, Len(d) + 1)
      BY <2>5, <3>2, <3>3
    <3>5. \A j \in 1..Len(c[k]) : j \in 1..Len(d) \/ j = Len(d) + 1
      BY <2>2, <3>2
    <3> HIDE DEF Place
    <3>6. \A j \in 1..Len(d) : Place(k, j)
      BY <2>3, <3>2 DEF Place
    <3>7. QED
      BY <2>1, <3>4, <3>5, <3>6
  <2>6. QED
    BY <2>4, <2>5
<1>4. 0..N \subseteq S
  <2> HIDE DEF S
  <2>1. QED
    BY <1>1, <1>2, <1>3, UpTo
<1>5. QED
  BY <1>1, <1>4 DEF c, N, Places

LEMMA ChosenKeeps ==
  ASSUME NEW T, NEW s \in Seq(T), NEW K, NEW p \in 1..Len(s), p \in K
  PROVE  /\ Len(Chosen(s, K)[p]) \in Nat
         /\ Len(Chosen(s, K)[p]) = Len(Chosen(s, K)[p - 1]) + 1
         /\ Chosen(s, K)[p][Len(Chosen(s, K)[p])] = s[p]
<1> DEFINE c == Chosen(s, K)
<1>0. ChosenStep(c, s, K, Len(s)) /\ \A k \in 0..Len(s) : c[k] \in Seq(T)
  BY ChosenIs
<1>1. /\ Len(s) \in Nat /\ p - 1 \in 0..Len(s)
      /\ c[p] = Append(c[p - 1], s[p])
      /\ \A k \in 0..Len(s) : c[k] \in Seq(T)
  <2> HIDE DEF c
  <2>1. Len(s) \in Nat /\ p - 1 \in 0..Len(s)
    OBVIOUS
  <2>2. c[p] = IF p \in K THEN Append(c[p - 1], s[p]) ELSE c[p - 1]
    BY <1>0 DEF ChosenStep
  <2>3. QED
    BY <1>0, <2>1, <2>2
<1> HIDE DEF c
<1>2. PICK d \in Seq(T) : d = c[p - 1]
  BY <1>1
<1>3. PICK x \in T : x = s[p]
  OBVIOUS
<1>4. Len(d) \in Nat /\ Len(c[p]) = Len(d) + 1 /\ c[p][Len(d) + 1] = s[p]
  <2>1. c[p] = Append(d, x)
    BY <1>1, <1>2, <1>3
  <2>2. Len(d) \in Nat /\ Len(Append(d, x)) = Len(d) + 1 /\ Append(d, x)[Len(d) + 1] = x
    OBVIOUS
  <2>3. QED
    BY <1>3, <2>1, <2>2
<1>5. QED
  BY <1>2, <1>4 DEF c

\* What is next to each other in the sequence and is chosen stays so.
LEMMA ChosenNeighbours ==
  ASSUME NEW T, NEW s \in Seq(T), NEW K, NEW p \in 1..Len(s), p \in K,
         p + 1 \in 1..Len(s), p + 1 \in K
  PROVE  \E j \in 1..(Len(Chosen(s, K)[Len(s)]) - 1) :
           Chosen(s, K)[Len(s)][j] = s[p] /\ Chosen(s, K)[Len(s)][j + 1] = s[p + 1]
<1> DEFINE c == Chosen(s, K)
           N == Len(s)
<1>1. /\ N \in Nat /\ p \in Nat /\ p \in 0..N /\ p + 1 \in 0..N /\ N \in 0..N
      /\ p <= N /\ p + 1 <= N /\ p - 1 \in 0..N /\ (p + 1) - 1 = p
  OBVIOUS
<1>2. \A k \in 0..N : c[k] \in Seq(T) /\ Len(c[k]) \in Nat
  BY ChosenIs
<1>3. Len(c[p]) = Len(c[p - 1]) + 1 /\ c[p][Len(c[p])] = s[p]
  BY ChosenKeeps
<1>4. Len(c[p + 1]) = Len(c[p]) + 1 /\ c[p + 1][Len(c[p + 1])] = s[p + 1]
  BY <1>1, ChosenKeeps
<1>5. Prefix(c, p, N) /\ Prefix(c, p + 1, N)
  BY <1>1, ChosenGrows
<1> HIDE DEF c, N
<1>6. PICK j \in Nat : j = Len(c[p])
  BY <1>1, <1>2
<1>7. j > 0 /\ j \in 1..Len(c[p]) /\ j + 1 \in 1..Len(c[p + 1]) /\ Len(c[p + 1]) = j + 1
  BY <1>1, <1>2, <1>3, <1>4, <1>6
<1>8. c[N][j] = s[p] /\ c[N][j + 1] = s[p + 1] /\ j + 1 <= Len(c[N])
  BY <1>3, <1>4, <1>5, <1>6, <1>7 DEF Prefix
<1>9. j \in 1..(Len(c[N]) - 1)
  BY <1>1, <1>2, <1>7, <1>8
<1>10. QED
  BY <1>8, <1>9 DEF c, N

\* Between two neighbours of the result nothing was chosen.
NextTo(kept, s, K, j) ==
  \E p, q \in K : /\ p \in 1 .. Len(s) /\ q \in 1 .. Len(s) /\ p < q
                  /\ \A r \in K \cap (1 .. Len(s)) : ~(p < r /\ r < q)
                  /\ kept[j] = s[p] /\ kept[j + 1] = s[q]

LEMMA ChosenNextTo ==
  ASSUME NEW T, NEW s \in Seq(T), NEW K,
         NEW j \in 1 .. Len(Chosen(s, K)[Len(s)]) - 1
  PROVE  NextTo(Chosen(s, K)[Len(s)], s, K, j)
<1> DEFINE c == Chosen(s, K)
           N == Len(s)
<1>1. /\ N \in Nat /\ N \in 0..N
      /\ \A k \in 0..N : c[k] \in Seq(T) /\ Len(c[k]) \in Nat
      /\ \A k \in 1..N : k \in 0..N /\ k - 1 \in 0..N /\ k \in Nat
  BY ChosenIs
<1>2. j \in Nat /\ j \in 1..Len(c[N]) /\ j + 1 \in 1..Len(c[N])
  BY <1>1
<1> DEFINE Placed(k) == \E p \in K : p \in 1..N /\ Len(c[p]) = k /\ c[N][k] = s[p]
<1>0. Places(c, s, K, N)
  BY <1>1, ChosenPlaces
<1>5. \A k, m \in 0..N : k <= m => Len(c[k]) <= Len(c[m])
  BY <1>1, ChosenGrows DEF Prefix
<1>6. \A r \in K : r \in 1..N => Len(c[r]) = Len(c[r - 1]) + 1
  BY ChosenKeeps
<1> HIDE DEF c, N
<1>3. PICK p \in K : p \in 1..N /\ Len(c[p]) = j /\ c[N][j] = s[p]
  BY <1>0, <1>2 DEF Places
<1>4. PICK q \in K : q \in 1..N /\ Len(c[q]) = j + 1 /\ c[N][j + 1] = s[q]
  <2>1. Placed(j + 1)
    BY <1>0, <1>2 DEF Places
  <2>2. QED
    BY <2>1
<1>7. p < q
  <2>1. ~(q <= p)
    BY <1>1, <1>2, <1>3, <1>4, <1>5
  <2>2. QED
    BY <1>1, <1>3, <1>4, <2>1
<1>8. ASSUME NEW r \in K \cap (1..N), p < r, r < q PROVE FALSE
  <2>1. r \in 1..N
    BY <1>3, <1>4, <1>8
  <2>2. Len(c[r]) = Len(c[r - 1]) + 1 /\ r - 1 \in 0..N /\ p <= r - 1 /\ r <= q
    BY <1>1, <1>3, <1>4, <1>6, <1>8, <2>1
  <2>3. Len(c[p]) <= Len(c[r - 1])
    BY <1>1, <1>3, <1>5, <2>2
  <2>4. QED
    <3>1. Len(c[q]) = Len(c[q - 1]) + 1 /\ q - 1 \in 0..N /\ r <= q - 1
      BY <1>1, <1>3, <1>4, <1>6, <1>8, <2>1
    <3>2. Len(c[r]) <= Len(c[q - 1])
      BY <1>1, <1>5, <2>1, <3>1
    <3>3. Len(c[r - 1]) \in Nat /\ Len(c[q - 1]) \in Nat /\ Len(c[r]) \in Nat
      BY <1>1, <2>1, <2>2, <3>1
    <3>4. QED
      BY <1>2, <1>3, <1>4, <2>2, <2>3, <3>1, <3>2, <3>3
<1>9. QED
  BY <1>3, <1>4, <1>7, <1>8 DEF c, N, NextTo

-----------------------------------------------------------------------------
(***************************************************************************)
(* The loop of Update_Clang_Args over arguments g, R being the headers that *)
(* it removes.                                                             *)
(***************************************************************************)
Arguments ==
  Argument \cup {Insert_Required_Parameters[k] : k \in DOMAIN Insert_Required_Parameters}

\* No -include has "-include" for its header, and none is first or last.
Regular(g) ==
  /\ g \in Seq(Arguments) /\ Len(g) > 0
  /\ g[1] # MinusInclude /\ g[Len(g)] # MinusInclude
  /\ \A k \in 1 .. Len(g) - 1 : g[k] = MinusInclude => g[k + 1] # MinusInclude

Removed(g, R) == {k \in 1 .. Len(g) : g[k] = MinusInclude /\ g[k + 1].name \in R}
Left(g, R) ==
  {k \in 1 .. Len(g) : k \notin Removed(g, R) /\ (k > 1 => k - 1 \notin Removed(g, R))}

\* n of the arguments are behind the loop: args is what was kept of them, and
\* the rest; at is at the first of the rest, or one before.
Scanned(n, g, R, args, at) ==
  LET kept == Chosen(g, Left(g, R))[n]
  IN  /\ args \in Seq(Arguments) /\ Len(args) = Len(kept) + (Len(g) - n)
      /\ \A j \in 1 .. Len(kept) : args[j] = kept[j]
      /\ \A j \in 1 .. Len(g) - n : args[Len(kept) + j] = g[n + j]
      /\ at = Len(kept) + 1 \/ (at = Len(kept) /\ at > 0 /\ kept[at] # MinusInclude)
      /\ n > 0 /\ g[n] # MinusInclude => Len(kept) > 0 /\ kept[Len(kept)] # MinusInclude
      /\ n > 0 => n \notin Removed(g, R)

Cut(args, at) == SubSeq(args, 1, at - 1) \o SubSeq(args, at + 2, Len(args))

LEMMA CutParts ==
  ASSUME NEW T, NEW args \in Seq(T), NEW at \in 1 .. Len(args) - 1
  PROVE  /\ Cut(args, at) \in Seq(T) /\ Len(Cut(args, at)) = Len(args) - 2
         /\ \A j \in 1 .. at - 1 : Cut(args, at)[j] = args[j]
         /\ \A j \in at .. Len(args) - 2 : Cut(args, at)[j] = args[j + 2]
<1> DEFINE N == Len(args)
           a == SubSeq(args, 1, at - 1)
           b == SubSeq(args, at + 2, N)
<1>1. N \in Nat /\ at \in Nat /\ at >= 1 /\ at <= N - 1
  OBVIOUS
<1>2. a \in Seq(T) /\ Len(a) = at - 1 /\ \A j \in 1 .. at - 1 : a[j] = args[j]
  BY <1>1
<1>3. b \in Seq(T) /\ Len(b) = N - at - 1
      /\ \A j \in 1 .. N - at - 1 : b[j] = args[at + 1 + j]
  <2>1. \A j \in 1 .. N - at - 1 : at + 2 + j - 1 = at + 1 + j
    BY <1>1
  <2>2. b \in Seq(T)
    BY <1>1
  <2>3. Len(b) = N - at - 1
    BY <1>1
  <2>4. \A j \in 1 .. N - at - 1 : b[j] = args[at + 2 + j - 1]
    BY <1>1
  <2>5. QED
    BY <2>1, <2>2, <2>3, <2>4
<1> HIDE DEF a, b
<1>4. /\ a \o b \in Seq(T) /\ Len(a \o b) = Len(a) + Len(b)
      /\ \A j \in 1 .. Len(a) + Len(b) :
           (a \o b)[j] = IF j <= Len(a) THEN a[j] ELSE b[j - Len(a)]
  BY <1>2, <1>3, ConcatProperties
<1>5. Cut(args, at) = a \o b
  BY DEF Cut, a, b
<1> HIDE DEF N
<1>6. Len(a) + Len(b) = N - 2
  BY <1>1, <1>2, <1>3
<1>7. ASSUME NEW j \in 1 .. at - 1 PROVE (a \o b)[j] = args[j]
  BY <1>1, <1>2, <1>4, <1>6
<1>8. ASSUME NEW j \in at .. N - 2 PROVE (a \o b)[j] = args[j + 2]
  <2>1. j \in 1 .. N - 2 /\ ~(j <= Len(a)) /\ j - Len(a) = j - at + 1
        /\ j - at + 1 \in 1 .. N - at - 1 /\ at + 1 + (j - at + 1) = j + 2
    BY <1>1, <1>2
  <2>2. QED
    BY <1>3, <1>4, <1>6, <2>1
<1>9. QED
  BY <1>4, <1>5, <1>6, <1>7, <1>8 DEF N

\* One round of the loop.
LEMMA ScanGoesOn ==
  ASSUME NEW g, Regular(g), NEW R, NEW n \in 0 .. Len(g), NEW args, NEW at,
         Scanned(n, g, R, args, at), at <= Len(args), NEW removed,
         removed <=> args[at] = MinusInclude /\ args[at + 1].name \in R
  PROVE  \E m \in 0 .. Len(g) :
           Scanned(m, g, R, IF removed THEN Cut(args, at) ELSE args,
                   IF removed THEN at - 1 ELSE at + 1)
<1> DEFINE c == Chosen(g, Left(g, R))
           L == Len(g)
           X == Removed(g, R)
           len == Len(c[n])
<1>1. /\ L \in Nat /\ L > 0 /\ g[1] # MinusInclude /\ g[L] # MinusInclude
      /\ \A k \in 1 .. L - 1 : g[k] = MinusInclude => g[k + 1] # MinusInclude
      /\ n \in Nat /\ n <= L /\ n \in 0 .. L
  BY DEF Regular
<1>2. /\ \A k \in 1 .. L : c[k] = IF k \in Left(g, R) THEN Append(c[k - 1], g[k]) ELSE c[k - 1]
      /\ \A k \in 0 .. L : c[k] \in Seq(Arguments) /\ Len(c[k]) \in Nat
  BY ChosenIs DEF ChosenStep, Regular
<1>3. \A k \in X : k \in 1 .. L /\ g[k] = MinusInclude
  BY DEF Removed
<1>4. \A k \in 1 .. L : k \in Left(g, R) <=> k \notin X /\ (k > 1 => k - 1 \notin X)
  BY DEF Left
<1>5. /\ args \in Seq(Arguments) /\ Len(args) = len + (L - n) /\ len \in Nat
      /\ \A j \in 1 .. len : args[j] = c[n][j]
      /\ \A j \in 1 .. L - n : args[len + j] = g[n + j]
      /\ at = len + 1 \/ (at = len /\ at > 0 /\ c[n][at] # MinusInclude)
      /\ n > 0 /\ g[n] # MinusInclude => len > 0 /\ c[n][len] # MinusInclude
      /\ n > 0 => n \notin X
  BY <1>2 DEF Scanned
<1>6. \A k \in 1 .. L : k \in X <=> g[k] = MinusInclude /\ g[k + 1].name \in R
  BY DEF Removed
<1>7. \A k \in 1 .. L : g[k] \in Arguments
  BY <1>1 DEF Regular
<1> HIDE DEF c, L, X
<1>8. CASE at = len
  <2>1. at \in 1 .. len /\ args[at] # MinusInclude /\ at + 1 = len + 1
    BY <1>5, <1>8
  <2>2. ~removed
    BY <2>1
  <2>3. Scanned(n, g, R, args, at + 1)
    BY <1>5, <2>1 DEF Scanned, c, L, X
  <2>4. QED
    BY <2>2, <2>3
<1>9. CASE at = len + 1 /\ ~removed
  <2>1. n + 1 \in 1 .. L /\ n + 1 \in 0 .. L /\ n + 1 - 1 = n /\ 1 \in 1 .. L - n
    BY <1>1, <1>5, <1>9
  <2>2. args[at] = g[n + 1]
    BY <1>5, <1>9, <2>1
  <2>3. n + 1 \notin X
    <3>1. CASE n + 1 = L
      BY <1>1, <1>3, <3>1
    <3>2. CASE n + 1 # L
      <4>1. 2 \in 1 .. L - n /\ n + 2 = (n + 1) + 1 /\ at + 1 = len + 2
        BY <1>1, <1>5, <1>9, <2>1, <3>2
      <4>2. args[at + 1] = g[(n + 1) + 1]
        BY <1>5, <4>1
      <4>3. QED
        BY <1>6, <1>9, <2>1, <2>2, <4>2
    <3>3. QED
      BY <3>1, <3>2
  <2>4. n + 1 \in Left(g, R)
    BY <1>1, <1>4, <1>5, <2>1, <2>3
  <2>5. c[n + 1] = Append(c[n], g[n + 1])
    <3>1. PICK k \in 1 .. L : k = n + 1 /\ k - 1 = n
      BY <2>1
    <3>2. c[k] = Append(c[k - 1], g[k])
      BY <1>2, <2>4, <3>1
    <3>3. QED
      BY <3>1, <3>2
  <2>6. PICK d \in Seq(Arguments) : d = c[n] /\ Len(d) = len
    <3>1. c[n] \in Seq(Arguments)
      BY <1>1, <1>2
    <3>2. QED
      BY <3>1
  <2>7. PICK x \in Arguments : x = g[n + 1]
    BY <1>7, <2>1
  <2>8. /\ Len(Append(d, x)) = len + 1 /\ Append(d, x)[len + 1] = x
        /\ \A j \in 1 .. len : Append(d, x)[j] = d[j]
    BY <2>6
  <2>9. /\ Len(c[n + 1]) = len + 1 /\ c[n + 1][len + 1] = g[n + 1]
        /\ \A j \in 1 .. len : c[n + 1][j] = c[n][j]
    BY <2>5, <2>6, <2>7, <2>8
  <2> DEFINE l1 == len + 1
             n1 == n + 1
  <2>10. /\ Len(args) = l1 + (L - n1)
         /\ \A j \in 1 .. l1 : args[j] = c[n1][j]
         /\ \A j \in 1 .. L - n1 : args[l1 + j] = g[n1 + j]
    <3>1. \A j \in 1 .. l1 : j \in 1 .. len \/ j = len + 1
      BY <1>5
    <3>2. \A j \in 1 .. L - n1 : j + 1 \in 1 .. L - n /\ len + (j + 1) = l1 + j /\ n + (j + 1) = n1 + j
      <4>1. L \in Nat /\ n \in Nat /\ len \in Nat
        BY <1>1, <1>5
      <4> HIDE DEF len
      <4>2. QED
        BY <4>1
    <3>3. \A j \in 1 .. len : args[j] = c[n1][j]
      BY <1>5, <2>9
    <3>4. args[len + 1] = c[n1][len + 1]
      BY <1>9, <2>2, <2>9
    <3>5. \A j \in 1 .. L - n1 : args[l1 + j] = g[n1 + j]
      BY <1>5, <3>2
    <3>6. Len(args) = l1 + (L - n1)
      BY <1>1, <1>5
    <3>7. QED
      BY <3>1, <3>3, <3>4, <3>5, <3>6
  <2>11. at + 1 = l1 + 1 /\ l1 > 0 /\ Len(c[n1]) = l1 /\ c[n1][l1] = g[n1] /\ n1 \notin X
    BY <1>5, <1>9, <2>3, <2>9
  <2>12. Scanned(n1, g, R, args, at + 1)
    <3> HIDE DEF l1, n1
    <3>1. QED
      BY <1>5, <2>10, <2>11 DEF Scanned, c, L, X
  <2>13. QED
    <3> HIDE DEF n1
    <3>1. n1 \in 0 .. L
      BY <2>1 DEF n1
    <3>2. QED
      BY <1>9, <2>12, <3>1 DEF L
<1>10. CASE at = len + 1 /\ removed
  <2>1. n + 1 \in 1 .. L /\ 1 \in 1 .. L - n
    BY <1>1, <1>5, <1>10
  <2>2. args[at] = g[n + 1] /\ args[at] = MinusInclude
    BY <1>5, <1>10, <2>1
  <2>3. n + 1 # L /\ n # 0
    <3>1. g[n + 1] = MinusInclude
      BY <2>2
    <3>2. n + 1 # L
      BY <1>1, <3>1
    <3>3. ASSUME n = 0 PROVE FALSE
      <4>1. n + 1 = 1
        BY <3>3
      <4>2. QED
        BY <1>1, <3>1, <4>1
    <3>4. QED
      BY <3>2, <3>3
  <2> DEFINE n2 == n + 2
  <2>4. /\ n2 \in 1 .. L /\ n2 \in 0 .. L /\ n + 1 \in 1 .. L - 1 /\ n \in 1 .. L - 1 /\ n2 = (n + 1) + 1
        /\ n2 - 1 = n + 1 /\ n + 1 - 1 = n /\ 2 \in 1 .. L - n /\ at + 1 = len + 2
        /\ n2 > 1 /\ n > 0
    BY <1>1, <1>5, <1>10, <2>1, <2>3
  <2>5. args[at + 1] = g[n2]
    BY <1>5, <2>4
  <2>6. n + 1 \in X
    BY <1>6, <1>10, <2>1, <2>2, <2>4, <2>5
  <2>7. g[n2] # MinusInclude /\ n2 \notin X
    BY <1>1, <1>3, <2>2, <2>4
  <2>8. g[n] # MinusInclude
    BY <1>1, <2>2, <2>4
  <2>9. c[n2] = c[n]
    <3>1. n + 1 \notin Left(g, R) /\ n2 \notin Left(g, R)
      BY <1>4, <2>1, <2>4, <2>6
    <3>2. c[n + 1] = c[n]
      BY <1>2, <2>1, <2>4, <3>1
    <3>3. QED
      BY <1>2, <2>4, <3>1, <3>2
  <2>10. at \in 1 .. Len(args) - 1 /\ at - 1 = len
    BY <1>1, <1>5, <1>10, <2>4
  <2> DEFINE cut == Cut(args, at)
  <2>11. /\ cut \in Seq(Arguments) /\ Len(cut) = Len(args) - 2
         /\ \A j \in 1 .. len : cut[j] = args[j]
         /\ \A j \in at .. Len(args) - 2 : cut[j] = args[j + 2]
    <3>1. args \in Seq(Arguments)
      BY <1>5
    <3>2. QED
      BY <2>10, <3>1, CutParts
  <2> HIDE DEF cut
  <2>12. /\ Len(cut) = len + (L - n2)
         /\ \A j \in 1 .. len : cut[j] = c[n2][j]
         /\ \A j \in 1 .. L - n2 : cut[len + j] = g[n2 + j]
    <3>1. \A j \in 1 .. L - n2 : len + j \in at .. Len(args) - 2 /\ j + 2 \in 1 .. L - n
                                 /\ len + j + 2 = len + (j + 2) /\ n + (j + 2) = n2 + j
      <4>1. L \in Nat /\ n \in Nat /\ len \in Nat /\ at = len + 1 /\ Len(args) = len + (L - n)
        BY <1>1, <1>5, <1>10
      <4> HIDE DEF len
      <4>2. QED
        BY <4>1
    <3>2. ASSUME NEW j \in 1 .. L - n2 PROVE cut[len + j] = g[n2 + j]
      <4>1. cut[len + j] = args[len + (j + 2)]
        BY <2>11, <3>1
      <4>2. args[len + (j + 2)] = g[n + (j + 2)]
        BY <1>5, <3>1
      <4>3. QED
        BY <3>1, <4>1, <4>2
    <3>3. Len(cut) = len + (L - n2)
      BY <1>1, <1>5, <2>11
    <3>4. QED
      BY <1>5, <2>9, <2>11, <3>2, <3>3
  <2>13. len > 0 /\ c[n2][len] # MinusInclude /\ Len(c[n2]) = len
    BY <1>5, <2>4, <2>8, <2>9
  <2>14. Scanned(n2, g, R, cut, at - 1)
    <3> HIDE DEF n2
    <3>1. QED
      BY <2>7, <2>10, <2>11, <2>12, <2>13 DEF Scanned, c, L, X
  <2>15. QED
    BY <1>10, <2>4, <2>14 DEF cut, L
<1>11. QED
  BY <1>5, <1>8, <1>9, <1>10

\* An -include that the loop is at has its header behind it.
LEMMA ScanHasHeader ==
  ASSUME NEW g, Regular(g), NEW R, NEW n \in 0 .. Len(g), NEW args, NEW at,
         Scanned(n, g, R, args, at), at <= Len(args), args[at] = MinusInclude
  PROVE  args[at + 1] \in Arguments
<1> DEFINE kept == Chosen(g, Left(g, R))[n]
           len == Len(kept)
           L == Len(g)
<1>1. L \in Nat /\ n \in Nat /\ n <= L /\ len \in Nat /\ g[L] # MinusInclude
  BY ChosenIs DEF Regular
<1>2. /\ args \in Seq(Arguments) /\ Len(args) = len + (L - n)
      /\ \A j \in 1 .. len : args[j] = kept[j]
      /\ \A j \in 1 .. L - n : args[len + j] = g[n + j]
      /\ at = len + 1 \/ (at = len /\ at > 0 /\ kept[at] # MinusInclude)
  BY DEF Scanned
<1> HIDE DEF len, kept, L
<1>3. at = len + 1
  <2>1. ASSUME at = len, at > 0 PROVE at \in 1 .. len
    BY <1>1, <2>1
  <2>2. QED
    BY <1>2, <2>1
<1>4. Len(args) # at
  <2> SUFFICES ASSUME Len(args) = at PROVE FALSE
    OBVIOUS
  <2>1. L - n = 1 /\ 1 \in 1 .. L - n /\ n + 1 = L
    BY <1>1, <1>2, <1>3
  <2>2. args[len + 1] = g[n + 1]
    BY <1>2, <2>1
  <2>3. QED
    BY <1>1, <1>3, <2>1, <2>2
<1>5. at + 1 \in 1 .. Len(args)
  BY <1>1, <1>2, <1>3, <1>4
<1>6. QED
  BY <1>2, <1>5

\* The loop is at an argument, or behind the last one.
LEMMA ScannedAt ==
  ASSUME NEW g, Regular(g), NEW R, NEW n \in 0 .. Len(g), NEW args, NEW at,
         Scanned(n, g, R, args, at)
  PROVE  at \in 1 .. Len(args) + 1 /\ at \in Int
<1> DEFINE c == Chosen(g, Left(g, R))
<1>1. Len(g) \in Nat /\ n \in Nat /\ n <= Len(g) /\ Len(c[n]) \in Nat
  BY ChosenIs DEF Regular
<1>2. /\ Len(args) = Len(c[n]) + (Len(g) - n)
      /\ at = Len(c[n]) + 1 \/ (at = Len(c[n]) /\ at > 0)
  BY DEF Scanned
<1> HIDE DEF c
<1>3. QED
  BY <1>1, <1>2

\* The loop starts with all arguments before it, and ends with none.
LEMMA ScanStarts ==
  ASSUME NEW g, Regular(g), NEW R
  PROVE  Scanned(0, g, R, g, 1)
<1> DEFINE c == Chosen(g, Left(g, R))
<1>1. g \in Seq(Arguments) /\ Len(g) \in Nat
  BY DEF Regular
<1>2. c[0] = <<>>
  BY <1>1, ChosenIs
<1>3. \A j \in 1 .. Len(g) - 0 : g[0 + j] = g[j]
  OBVIOUS
<1> HIDE DEF c
<1>4. Len(c[0]) = 0 /\ 1 .. Len(c[0]) = {} /\ \A j \in 1 .. Len(g) - 0 : Len(c[0]) + j = j /\ 0 + j = j
  BY <1>1, <1>2
<1>5. Len(g) = Len(c[0]) + (Len(g) - 0) /\ 1 = Len(c[0]) + 1
  BY <1>1, <1>4
<1>6. \A j \in 1 .. Len(g) - 0 : g[Len(c[0]) + j] = g[0 + j]
  BY <1>4
<1>7. QED
  BY <1>1, <1>4, <1>5, <1>6 DEF Scanned, c

LEMMA ScanEnds ==
  ASSUME NEW g, Regular(g), NEW R, NEW n \in 0 .. Len(g), NEW args, NEW at,
         Scanned(n, g, R, args, at), at > Len(args)
  PROVE  args = Chosen(g, Left(g, R))[Len(g)]
<1> DEFINE kept == Chosen(g, Left(g, R))[n]
<1>1. Len(g) \in Nat /\ kept \in Seq(Arguments) /\ Len(kept) \in Nat
  BY ChosenIs DEF Regular
<1>2. /\ args \in Seq(Arguments) /\ Len(args) = Len(kept) + (Len(g) - n)
      /\ \A j \in 1 .. Len(kept) : args[j] = kept[j]
      /\ at = Len(kept) + 1 \/ at = Len(kept)
  BY DEF Scanned
<1>3. n = Len(g)
  BY <1>1, <1>2
<1>4. Len(args) = Len(kept)
  BY <1>1, <1>2, <1>3
<1> HIDE DEF kept
<1>5. args = kept
  BY <1>1, <1>2, <1>4
<1>6. QED
  BY <1>3, <1>5 DEF kept

-----------------------------------------------------------------------------
(***************************************************************************)
(* What clang gets: the arguments during a run, for any command lines.     *)
(***************************************************************************)
ClangOnes == {k \in 1 .. Len(argv) : ForClang(argv[k])}
RemovedHeaders == {h \in {a.name : a \in Arguments} : Removes(h)}

\* No -include of the command line is for a header called "-include": the loop
\* erases that name with the -include before it, but takes it for an option itself
\* when it leaves the one before it where it is.
Sensible ==
  \A k \in 1 .. Len(Given) - 1 : Given[k] = MinusInclude => Given[k + 1] # MinusInclude

CLInv ==
  /\ argv \in CommandLines
  /\ it \in Int
  /\ status \in {"parse", "context"} => it = 1
  /\ status = "parse" => /\ i \in 1 .. Len(argv) + 1
                         /\ ClangArgs = Chosen(argv, ClangOnes)[i - 1]
  /\ status = "context" => ClangArgs = Given
  /\ status \in {"update", "advance"} => ~KeepIncludes \/ Expand_Minus_Includes(IncExpansionPolicy)
  /\ status = "update" =>
       (Sensible => \E n \in 0 .. Len(Given) :
                      Scanned(n, Given, RemovedHeaders, ClangArgs, it))
  /\ status = "advance" =>
       (Sensible => \E n \in 0 .. Len(Given) :
                      Scanned(n, Given, RemovedHeaders, ClangArgs, it + 1))
  /\ status = "ready" => (Sensible => ClangArgs = Meant)

LEMMA RequiredParameters ==
  /\ Insert_Required_Parameters \in Seq(Arguments)
  /\ Len(Insert_Required_Parameters) = 2
  /\ Insert_Required_Parameters[2] # MinusInclude
<1> DEFINE a == Clang("-Xclang")
           b == Clang("-detailed-preprocessing-record")
<1>1. b # MinusInclude
  <2>1. b.name # MinusInclude.name
    BY DEF Clang, MinusInclude
  <2>2. QED
    BY <2>1
<1>2. Insert_Required_Parameters = <<a, b>>
  BY DEF Insert_Required_Parameters
<1> HIDE DEF a, b
<1>3. QED
  BY <1>1, <1>2 DEF Arguments

\* The arguments before the loop: the program name first, then those of the
\* command line that are clang's.
LEMMA GivenParts ==
  ASSUME argv \in CommandLines
  PROVE  /\ argv \in Seq(Argument) /\ 1 \in ClangOnes /\ 1 \in 1 .. Len(argv)
         /\ Given \in Seq(Arguments) /\ Len(Given) > 1
         /\ Given[1] # MinusInclude /\ Given[Len(Given)] # MinusInclude
         /\ Len(Chosen(argv, ClangOnes)[Len(argv)]) \in Nat
         /\ Len(Given) = Len(Chosen(argv, ClangOnes)[Len(argv)]) + 2
         /\ \A j \in 1 .. Len(Chosen(argv, ClangOnes)[Len(argv)]) :
              Given[j] = Chosen(argv, ClangOnes)[Len(argv)][j]
<1> DEFINE c == Chosen(argv, ClangOnes)
           N == Len(argv)
           ins == Insert_Required_Parameters
<1>1. argv \in Seq(Argument) /\ argv # <<>> /\ argv[1].kind = "clang" /\ argv[1] # MinusInclude
  BY CommandLinesOK
<1>2. N \in Nat /\ 1 \in 1 .. N /\ N \in 0 .. N /\ 1 \in 0 .. N /\ 1 - 1 = 0 /\ 1 <= N
  BY <1>1
<1>3. 1 \in ClangOnes
  BY <1>1, <1>2 DEF ClangOnes, ForClang
<1>4. \A k \in 0 .. N : c[k] \in Seq(Argument)
  BY <1>1, ChosenIs
<1>5. c[0] = <<>>
  BY <1>1, ChosenIs
<1>6. Len(c[1]) = Len(c[1 - 1]) + 1 /\ c[1][Len(c[1])] = argv[1]
  BY <1>1, <1>2, <1>3, ChosenKeeps
<1>7. Prefix(c, 1, N)
  BY <1>1, <1>2, ChosenGrows
<1>8. Given = c[N] \o ins
  BY DEF Given, ClangOnes
<1> HIDE DEF c, N, ins
<1>9. Len(c[1]) = 1 /\ c[1][1] = argv[1]
  <2>1. c[1 - 1] = <<>> /\ Len(c[1 - 1]) = 0
    BY <1>2, <1>5
  <2>2. QED
    BY <1>6, <2>1
<1>10. PICK d \in Seq(Arguments) : d = c[N]
  <2>1. PICK e \in Seq(Argument) : e = c[N]
    BY <1>2, <1>4
  <2>2. Argument \subseteq Arguments
    BY DEF Arguments
  <2>3. e \in Seq(Arguments)
    <3>1. Len(e) \in Nat /\ \A k \in 1 .. Len(e) : e[k] \in Argument
      BY <2>1
    <3>2. e = [k \in 1 .. Len(e) |-> e[k]]
      BY <2>1
    <3>3. e \in [1 .. Len(e) -> Arguments]
      BY <2>2, <3>1, <3>2
    <3>4. QED
      BY <3>1, <3>3
  <2>4. QED
    BY <2>1, <2>3
<1>11. Len(d) \in Nat /\ Len(d) >= 1 /\ d[1] = argv[1]
  BY <1>7, <1>9, <1>10 DEF Prefix
<1>12. ins \in Seq(Arguments) /\ Len(ins) = 2 /\ ins[2] # MinusInclude
  BY RequiredParameters DEF ins
<1>13. /\ d \o ins \in Seq(Arguments) /\ Len(d \o ins) = Len(d) + Len(ins)
       /\ \A j \in 1 .. Len(d) + Len(ins) :
            (d \o ins)[j] = IF j <= Len(d) THEN d[j] ELSE ins[j - Len(d)]
  BY <1>10, <1>12, ConcatProperties
<1>14. /\ Given \in Seq(Arguments) /\ Len(Given) = Len(d) + 2
       /\ \A j \in 1 .. Len(d) : Given[j] = d[j]
       /\ Given[Len(d) + 2] = ins[2]
  <2>1. \A j \in 1 .. Len(d) : j \in 1 .. Len(d) + 2 /\ j <= Len(d)
    BY <1>11
  <2>2. Len(d) + 2 \in 1 .. Len(d) + 2 /\ ~(Len(d) + 2 <= Len(d)) /\ Len(d) + 2 - Len(d) = 2
    BY <1>11
  <2>3. QED
    BY <1>8, <1>10, <1>12, <1>13, <2>1, <2>2
<1>15. Given[1] = argv[1] /\ Given[Len(Given)] = ins[2]
  <2>1. 1 \in 1 .. Len(d)
    BY <1>11
  <2>2. QED
    BY <1>11, <1>14, <2>1
<1>16. Given[1] # MinusInclude /\ Given[Len(Given)] # MinusInclude /\ Len(Given) > 1
  BY <1>1, <1>11, <1>12, <1>14, <1>15
<1>17. QED
  BY <1>1, <1>2, <1>3, <1>10, <1>11, <1>14, <1>16 DEF c, N

LEMMA GivenIsRegular ==
  ASSUME argv \in CommandLines, Sensible
  PROVE  Regular(Given)
BY GivenParts DEF Regular, Sensible

LEMMA StayIsLeft ==
  ASSUME argv \in CommandLines
  PROVE  /\ \A k \in 1 .. Len(Given) : ToExpand(Given, k) <=> k \in Removed(Given, RemovedHeaders)
         /\ Stay(Given) = Left(Given, RemovedHeaders)
<1> DEFINE L == Len(Given)
           X == Removed(Given, RemovedHeaders)
<1>1. Given \in Seq(Arguments) /\ L \in Nat /\ Given[L] # MinusInclude
  BY GivenParts
<1>2. \A k \in 1 .. L : ToExpand(Given, k) <=> k \in X
  <2> SUFFICES ASSUME NEW k \in 1 .. L, Given[k] = MinusInclude
               PROVE  Removes(Given[k + 1].name) <=> Given[k + 1].name \in RemovedHeaders
    BY DEF ToExpand, Removed
  <2>1. k + 1 \in 1 .. L
    BY <1>1
  <2>2. Given[k + 1] \in Arguments
    BY <1>1, <2>1
  <2>3. Given[k + 1].name \in {a.name : a \in Arguments}
    BY <2>2
  <2>4. QED
    BY <2>3 DEF RemovedHeaders
<1>3. \A k \in 1 .. L : k > 1 => k - 1 \in 1 .. L
  BY <1>1
<1> HIDE DEF X
<1>4. Stay(Given) = {k \in 1 .. L : k \notin X /\ (k > 1 => k - 1 \notin X)}
  BY <1>2, <1>3 DEF Stay
<1>5. QED
  BY <1>2, <1>4 DEF Left, X

clIdle == <<argv, option, ClangArgs, it, i>>

LEMMA CLInvInit == Init => CLInv
<1> SUFFICES ASSUME CLInit PROVE CLInv
  BY DEF Init
<1>1. argv \in CommandLines /\ i = 1 /\ it = 1 /\ ClangArgs = <<>> /\ status = "parse"
  BY DEF CLInit
<1>2. argv \in Seq(Argument) /\ Len(argv) \in Nat /\ 1 \in 1 .. Len(argv) + 1
  <2>1. argv \in Seq(Argument)
    BY <1>1, GivenParts
  <2>2. QED
    BY <2>1
<1>3. Chosen(argv, ClangOnes)[i - 1] = <<>>
  <2>1. Chosen(argv, ClangOnes)[0] = <<>> /\ i - 1 = 0
    BY <1>1, <1>2, ChosenIs
  <2>2. QED
    BY <2>1
<1>4. QED
  BY <1>1, <1>2, <1>3 DEF CLInv

LEMMA SameGiven ==
  ASSUME UNCHANGED <<argv, option>>
  PROVE  /\ Given' = Given /\ RemovedHeaders' = RemovedHeaders /\ Sensible' = Sensible
         /\ ClangOnes' = ClangOnes
         /\ KeepIncludes' = KeepIncludes /\ IncExpansionPolicy' = IncExpansionPolicy
<1>1. argv' = argv /\ option' = option
  OBVIOUS
<1>2. KeepIncludes' = KeepIncludes /\ IncExpansionPolicy' = IncExpansionPolicy
  BY <1>1 DEF KeepIncludes, IncExpansionPolicy
<1>3. Given' = Given /\ ClangOnes' = ClangOnes
  BY <1>1 DEF Given, ClangOnes
<1>4. RemovedHeaders' = RemovedHeaders
  BY <1>2 DEF RemovedHeaders, Removes, PolicyExpands
<1>5. Sensible' = Sensible
  BY <1>3 DEF Sensible
<1>6. QED
  BY <1>2, <1>3, <1>4, <1>5

LEMMA SameMeant ==
  ASSUME UNCHANGED <<argv, option>>, status' = status
  PROVE  Meant' = Meant
<1>1. argv' = argv /\ option' = option
  OBVIOUS
<1>2. KeepIncludes' = KeepIncludes /\ IncExpansionPolicy' = IncExpansionPolicy
      /\ Given' = Given
  BY SameGiven
<1>3. RemovesAny' = RemovesAny
  BY <1>2 DEF RemovesAny
<1>4. Stay(Given)' = Stay(Given)
  BY <1>2 DEF Stay, ToExpand, Removes, PolicyExpands
<1>5. QED
  BY <1>2, <1>3, <1>4 DEF Meant

\* What the invariant says of a step that ends the program.
LEMMA CLInvEnds ==
  ASSUME CLInv, argv' = argv, it' = it,
         status' \notin {"parse", "context", "update", "advance", "ready"}
  PROVE  CLInv'
BY DEF CLInv

LEMMA CLInvParseArg ==
  ASSUME CLInv, ParseArg
  PROVE  CLInv'
<1>1. /\ status = "parse" /\ i <= Len(argv) /\ argv \in CommandLines /\ it = 1
      /\ i \in 1 .. Len(argv) + 1 /\ ClangArgs = Chosen(argv, ClangOnes)[i - 1]
      /\ status' = Fate(argv[i]) /\ i' = i + 1 /\ argv' = argv /\ it' = it
  BY DEF CLInv, ParseArg
<1>2. argv \in Seq(Argument) /\ Len(argv) \in Nat /\ i \in 1 .. Len(argv) /\ i - 1 \in 0 .. Len(argv)
  <2>1. argv \in Seq(Argument)
    BY <1>1, GivenParts
  <2>2. Len(argv) \in Nat
    BY <2>1
  <2>3. i \in 1 .. Len(argv) /\ i - 1 \in 0 .. Len(argv)
    BY <1>1, <2>2
  <2>4. QED
    BY <2>1, <2>2, <2>3
<1>3. status' \in {"parse", "exit0", "exit1", "aborted"}
  BY <1>1 DEF Fate
<1>4. CASE status' # "parse"
  BY <1>1, <1>3, <1>4, CLInvEnds
<1>5. CASE status' = "parse"
  <2>1. ClangArgs' = IF ForClang(argv[i]) THEN Append(ClangArgs, argv[i]) ELSE ClangArgs
    BY <1>5 DEF ParseArg
  <2>2. ForClang(argv[i]) <=> i \in ClangOnes
    BY <1>2 DEF ClangOnes
  <2> DEFINE c == Chosen(argv, ClangOnes)
  <2>3. c[i] = IF i \in ClangOnes THEN Append(c[i - 1], argv[i]) ELSE c[i - 1]
    BY <1>2, ChosenIs DEF ChosenStep
  <2> HIDE DEF c
  <2>4. ClangArgs' = c[i]
    BY <1>1, <2>1, <2>2, <2>3 DEF c
  <2>5. ClangOnes' = ClangOnes
    BY <1>1 DEF ClangOnes
  <2>6. i' - 1 = i /\ i' \in 1 .. Len(argv) + 1
    BY <1>1, <1>2
  <2>7. ClangArgs' = Chosen(argv, ClangOnes)[i' - 1]
    BY <2>4, <2>6 DEF c
  <2>8. QED
    BY <1>1, <1>5, <2>5, <2>6, <2>7 DEF CLInv
<1>6. QED
  BY <1>4, <1>5

LEMMA CLInvParsed ==
  ASSUME CLInv, Parsed
  PROVE  CLInv'
<1>1. /\ argv \in CommandLines /\ it = 1 /\ i > Len(argv)
      /\ i \in 1 .. Len(argv) + 1 /\ ClangArgs = Chosen(argv, ClangOnes)[i - 1]
      /\ ClangArgs' = ClangArgs \o Insert_Required_Parameters
      /\ status' \in {"exit1", "context"} /\ argv' = argv /\ it' = it
  BY DEF CLInv, Parsed
<1>2. argv \in Seq(Argument)
  BY <1>1, GivenParts
<1>3. i - 1 = Len(argv)
  BY <1>1, <1>2
<1>4. ClangArgs' = Given
  BY <1>1, <1>3 DEF Given, ClangOnes
<1>5. Given' = Given
  BY <1>1 DEF Given
<1>6. QED
  BY <1>1, <1>4, <1>5, CLInvEnds DEF CLInv

LEMMA CLInvBuildASTUnit ==
  ASSUME CLInv, Build_ASTUnit
  PROVE  CLInv'
<1> DEFINE Loops == ~KeepIncludes \/ Expand_Minus_Includes(IncExpansionPolicy)
<1>1. /\ argv \in CommandLines /\ it = 1 /\ ClangArgs = Given
      /\ argv' = argv /\ option' = option /\ ClangArgs' = ClangArgs /\ it' = it
      /\ status' \in {"failed", IF Loops THEN "update" ELSE "ready"}
  BY DEF CLInv, Build_ASTUnit
<1>2. /\ Given' = Given /\ RemovedHeaders' = RemovedHeaders /\ Sensible' = Sensible
      /\ KeepIncludes' = KeepIncludes /\ IncExpansionPolicy' = IncExpansionPolicy
  BY <1>1, SameGiven
<1>3. CASE status' = "failed"
  BY <1>1, <1>3, CLInvEnds
<1>4. CASE Loops /\ status' = "update"
  <2>1. ASSUME Sensible
        PROVE  \E n \in 0 .. Len(Given) : Scanned(n, Given, RemovedHeaders, Given, 1)
    <3>1. Regular(Given)
      BY <1>1, <2>1, GivenIsRegular
    <3>2. 0 \in 0 .. Len(Given)
      BY <3>1 DEF Regular
    <3>3. QED
      BY <3>1, <3>2, ScanStarts
  <2>2. (Sensible => \E n \in 0 .. Len(Given) :
                       Scanned(n, Given, RemovedHeaders, ClangArgs, it))'
    BY <1>1, <1>2, <2>1
  <2>3. Loops'
    BY <1>2, <1>4
  <2>4. QED
    BY <1>1, <1>4, <2>2, <2>3 DEF CLInv
<1>5. CASE ~Loops /\ status' = "ready"
  <2>1. ~RemovesAny'
    BY <1>2, <1>5 DEF RemovesAny
  <2>2. Meant' = Given'
    BY <2>1 DEF Meant
  <2>3. QED
    BY <1>1, <1>2, <1>5, <2>2 DEF CLInv
<1>6. QED
  BY <1>1, <1>3, <1>4, <1>5

LEMMA CLInvUpdate ==
  ASSUME CLInv, Update_Clang_Args
  PROVE  CLInv'
<1>1. /\ argv \in CommandLines /\ status = "update" /\ it <= Len(ClangArgs) /\ it \in Int
      /\ ~KeepIncludes \/ Expand_Minus_Includes(IncExpansionPolicy)
      /\ Sensible => \E n \in 0 .. Len(Given) :
                       Scanned(n, Given, RemovedHeaders, ClangArgs, it)
      /\ argv' = argv /\ option' = option /\ status' = "advance"
  BY DEF CLInv, Update_Clang_Args
<1>2. /\ Given' = Given /\ RemovedHeaders' = RemovedHeaders /\ Sensible' = Sensible
      /\ KeepIncludes' = KeepIncludes /\ IncExpansionPolicy' = IncExpansionPolicy
  BY <1>1, SameGiven
<1> DEFINE removed == ClangArgs[it] = MinusInclude /\ Removes(ClangArgs[it + 1].name)
<1>3. /\ ClangArgs' = IF removed THEN Cut(ClangArgs, it) ELSE ClangArgs
      /\ it' = IF removed THEN it - 2 ELSE it
  BY DEF Update_Clang_Args, Cut, Back
<1>4. ASSUME Sensible
      PROVE  \E n \in 0 .. Len(Given) : Scanned(n, Given, RemovedHeaders, ClangArgs', it' + 1)
  <2>1. PICK n \in 0 .. Len(Given) : Scanned(n, Given, RemovedHeaders, ClangArgs, it)
    BY <1>1, <1>4
  <2>2. Regular(Given)
    BY <1>1, <1>4, GivenIsRegular
  <2>3. removed <=> ClangArgs[it] = MinusInclude /\ ClangArgs[it + 1].name \in RemovedHeaders
    <3> SUFFICES ASSUME ClangArgs[it] = MinusInclude
                 PROVE  ClangArgs[it + 1].name \in {a.name : a \in Arguments}
      BY DEF RemovedHeaders
    <3>1. ClangArgs[it + 1] \in Arguments
      BY <1>1, <2>1, <2>2, ScanHasHeader
    <3>2. QED
      BY <3>1
  <2>4. \E m \in 0 .. Len(Given) :
          Scanned(m, Given, RemovedHeaders, IF removed THEN Cut(ClangArgs, it) ELSE ClangArgs,
                  IF removed THEN it - 1 ELSE it + 1)
    <3> HIDE DEF removed
    <3>1. QED
      BY <1>1, <2>1, <2>2, <2>3, ScanGoesOn
  <2>5. it' + 1 = IF removed THEN it - 1 ELSE it + 1
    BY <1>1, <1>3
  <2>6. QED
    BY <1>3, <2>4, <2>5
<1>5. it' \in Int
  BY <1>1, <1>3
<1>6. QED
  BY <1>1, <1>2, <1>4, <1>5 DEF CLInv

LEMMA CLInvAdvance ==
  ASSUME CLInv, Advance
  PROVE  CLInv'
<1>1. /\ argv \in CommandLines /\ status = "advance"
      /\ ~KeepIncludes \/ Expand_Minus_Includes(IncExpansionPolicy)
      /\ Sensible => \E n \in 0 .. Len(Given) :
                       Scanned(n, Given, RemovedHeaders, ClangArgs, it + 1)
      /\ argv' = argv /\ option' = option /\ ClangArgs' = ClangArgs
      /\ status' = "update" /\ it' = it + 1
  BY DEF CLInv, Advance
<1>2. /\ Given' = Given /\ RemovedHeaders' = RemovedHeaders /\ Sensible' = Sensible
      /\ KeepIncludes' = KeepIncludes /\ IncExpansionPolicy' = IncExpansionPolicy
  BY <1>1, SameGiven
<1>3. QED
  BY <1>1, <1>2 DEF CLInv

LEMMA CLInvUpdateDone ==
  ASSUME CLInv, UpdateDone
  PROVE  CLInv'
<1>1. /\ argv \in CommandLines /\ it > Len(ClangArgs)
      /\ ~KeepIncludes \/ Expand_Minus_Includes(IncExpansionPolicy)
      /\ Sensible => \E n \in 0 .. Len(Given) :
                       Scanned(n, Given, RemovedHeaders, ClangArgs, it)
      /\ argv' = argv /\ option' = option /\ status' = "ready" /\ ClangArgs' = ClangArgs
      /\ it \in Int /\ it' = it
  BY DEF CLInv, UpdateDone
<1>2. /\ Given' = Given /\ RemovedHeaders' = RemovedHeaders /\ Sensible' = Sensible
      /\ KeepIncludes' = KeepIncludes /\ IncExpansionPolicy' = IncExpansionPolicy
  BY <1>1, SameGiven
<1>3. ASSUME Sensible PROVE ClangArgs = Chosen(Given, Stay(Given))[Len(Given)]
  <2>1. PICK n \in 0 .. Len(Given) : Scanned(n, Given, RemovedHeaders, ClangArgs, it)
    BY <1>1, <1>3
  <2>2. Regular(Given)
    BY <1>1, <1>3, GivenIsRegular
  <2>3. QED
    BY <1>1, <2>1, <2>2, ScanEnds, StayIsLeft
<1>4. Stay(Given)' = Stay(Given)
  BY <1>1, <1>2 DEF Stay, ToExpand, Removes, PolicyExpands
<1>5. RemovesAny'
  BY <1>1, <1>2 DEF RemovesAny
<1>6. Meant' = Chosen(Given, Stay(Given))[Len(Given)]
  BY <1>2, <1>4, <1>5 DEF Meant
<1>7. QED
  BY <1>1, <1>2, <1>3, <1>6 DEF CLInv

LEMMA CLInvStep == CLInv /\ [Next]_vars => CLInv'
<1> SUFFICES ASSUME CLInv, [Next]_vars PROVE CLInv'
  OBVIOUS
<1>1. CASE UNCHANGED clVars
  <2>1. /\ argv' = argv /\ i' = i /\ option' = option /\ ClangArgs' = ClangArgs
        /\ it' = it /\ status' = status
    BY <1>1 DEF clVars
  <2>2. /\ Given' = Given /\ RemovedHeaders' = RemovedHeaders /\ Sensible' = Sensible
        /\ ClangOnes' = ClangOnes
        /\ KeepIncludes' = KeepIncludes /\ IncExpansionPolicy' = IncExpansionPolicy
    BY <2>1, SameGiven
  <2>3. Meant' = Meant
    BY <2>1, SameMeant
  <2>4. QED
    BY <2>1, <2>2, <2>3 DEF CLInv
<1>2. CASE Parse
  BY <1>2, CLInvParseArg, CLInvParsed DEF Parse
<1>3. CASE OpenFailed
  BY <1>3, CLInvEnds DEF OpenFailed
<1>4. CASE BuildAST
  BY <1>4, CLInvBuildASTUnit, CLInvUpdate, CLInvAdvance, CLInvUpdateDone DEF BuildAST
<1>5. CASE OpenNext \/ ReadObject \/ UNCHANGED vars
  BY <1>1, <1>5 DEF OpenNext, ReadObject, vars
<1>6. QED
  BY <1>2, <1>3, <1>4, <1>5 DEF Next

LEMMA CLInvHolds == Spec => []CLInv
BY CLInvInit, CLInvStep, PTL DEF Spec

-----------------------------------------------------------------------------
\* At the end of BuildASTPass the arguments are those meant: what the command line
\* gives clang, in its order, without each -include that is to be expanded and its
\* header.  What a round of the loop reads is one of them, though the iterator is
\* moved back one too far, to the place before begin() at worst; for command lines
\* that are Sensible.
THEOREM ClangGetsTheRestHolds == Spec => [](Sensible => ClangGetsTheRest)
<1>1. ASSUME CLInv, Sensible PROVE ClangGetsTheRest
  <2>1. status = "ready" => ClangArgs = Meant
    BY <1>1 DEF CLInv
  <2>2. Regular(Given)
    BY <1>1, GivenIsRegular DEF CLInv
  <2>3. ASSUME status = "update" PROVE it \in 1 .. Len(ClangArgs) + 1
    <3>1. PICK n \in 0 .. Len(Given) : Scanned(n, Given, RemovedHeaders, ClangArgs, it)
      BY <1>1, <2>3 DEF CLInv
    <3>2. QED
      BY <2>2, <3>1, ScannedAt
  <2>4. ASSUME status = "advance" PROVE it \in 0 .. Len(ClangArgs)
    <3>1. PICK n \in 0 .. Len(Given) : Scanned(n, Given, RemovedHeaders, ClangArgs, it + 1)
      BY <1>1, <2>4 DEF CLInv
    <3>2. it + 1 \in 1 .. Len(ClangArgs) + 1
      BY <2>2, <3>1, ScannedAt
    <3>3. it \in Int
      BY <1>1, <2>4 DEF CLInv
    <3>4. ClangArgs \in Seq(Arguments)
      BY <3>1 DEF Scanned
    <3>5. QED
      BY <3>2, <3>3, <3>4
  <2>5. QED
    BY <2>1, <2>3, <2>4 DEF ClangGetsTheRest
<1>2. CLInv => (Sensible => ClangGetsTheRest)
  BY <1>1
<1>3. QED
  BY <1>2, CLInvHolds, PTL

-----------------------------------------------------------------------------
\* An -include of the command line stands before the loop, too.
LEMMA IncludedInGiven ==
  ASSUME argv \in CommandLines, NEW h, Included(h, argv)
  PROVE  \E p \in 1 .. Len(Given) - 1 : Given[p] = MinusInclude /\ Given[p + 1] = Clang(h)
<1> DEFINE N == Len(argv)
           c == Chosen(argv, ClangOnes)
<1>1. PICK k \in 1 .. N - 1 : argv[k] = MinusInclude /\ argv[k + 1] = Clang(h)
  BY DEF Included
<1>2. argv \in Seq(Argument) /\ Len(c[N]) \in Nat /\ Len(Given) = Len(c[N]) + 2
      /\ \A j \in 1 .. Len(c[N]) : Given[j] = c[N][j]
  BY GivenParts
<1>3. k \in 1 .. N /\ k + 1 \in 1 .. N
  BY <1>2
<1>4. k \in ClangOnes /\ k + 1 \in ClangOnes
  <2>1. MinusInclude.kind = "clang" /\ Clang(h).kind = "clang"
    BY DEF MinusInclude, Clang
  <2>2. QED
    BY <1>1, <1>3, <2>1 DEF ClangOnes, ForClang
<1>5. \E j \in 1 .. Len(c[N]) - 1 : c[N][j] = argv[k] /\ c[N][j + 1] = argv[k + 1]
  BY <1>2, <1>3, <1>4, ChosenNeighbours
<1> HIDE DEF c, N
<1>6. PICK j \in 1 .. Len(c[N]) - 1 : c[N][j] = argv[k] /\ c[N][j + 1] = argv[k + 1]
  BY <1>5
<1>7. j \in 1 .. Len(c[N]) /\ j + 1 \in 1 .. Len(c[N]) /\ j \in 1 .. Len(Given) - 1
  BY <1>2
<1>8. QED
  BY <1>1, <1>2, <1>6, <1>7

\* Neither a -include that stays nor what follows it is removed.
LEMMA IncludeStays ==
  ASSUME NEW g, Regular(g), NEW R, NEW p \in 1 .. Len(g) - 1,
         g[p] = MinusInclude, p \notin Removed(g, R)
  PROVE  p \in Left(g, R) /\ p + 1 \in Left(g, R)
<1>1. Len(g) \in Nat /\ \A k \in 1 .. Len(g) - 1 : g[k] = MinusInclude => g[k + 1] # MinusInclude
  BY DEF Regular
<1>2. p \in 1 .. Len(g) /\ p + 1 \in 1 .. Len(g) /\ p + 1 - 1 = p /\ p - 1 + 1 = p
      /\ (p > 1 => p - 1 \in 1 .. Len(g) - 1)
  BY <1>1
<1>3. p > 1 => p - 1 \notin Removed(g, R)
  <2>1. p > 1 => g[p - 1] # MinusInclude
    BY <1>1, <1>2
  <2>2. QED
    BY <2>1 DEF Removed
<1>4. p + 1 \notin Removed(g, R)
  BY <1>1 DEF Removed
<1>5. QED
  BY <1>2, <1>3, <1>4 DEF Left

LEMMA KeptIncludes ==
  ASSUME NEW g, Regular(g), NEW R, NEW h,
         NEW kept, kept = Chosen(g, Left(g, R))[Len(g)]
  PROVE  /\ \A p \in 1 .. Len(g) - 1 :
              g[p] = MinusInclude /\ g[p + 1] = Clang(h) =>
                p \in Removed(g, R) \/ Included(h, kept)
         /\ Included(h, kept) =>
              \E p \in 1 .. Len(g) - 1 :
                g[p] = MinusInclude /\ g[p + 1] = Clang(h) /\ p \notin Removed(g, R)
<1> DEFINE K == Left(g, R)
           N == Len(g)
<1>1. g \in Seq(Arguments) /\ N \in Nat /\ g[N] # MinusInclude
  BY DEF Regular
<1>2. ASSUME NEW p \in 1 .. N - 1, g[p] = MinusInclude, g[p + 1] = Clang(h),
             p \notin Removed(g, R)
      PROVE  Included(h, kept)
  <2>1. p \in K /\ p + 1 \in K /\ p \in 1 .. N /\ p + 1 \in 1 .. N
    BY <1>1, <1>2, IncludeStays
  <2>2. \E j \in 1 .. Len(kept) - 1 : kept[j] = g[p] /\ kept[j + 1] = g[p + 1]
    <3> HIDE DEF K
    <3>1. QED
      BY <1>1, <2>1, ChosenNeighbours DEF K
  <2>3. QED
    BY <1>2, <2>2 DEF Included
<1>3. ASSUME Included(h, kept)
      PROVE  \E p \in 1 .. N - 1 :
               g[p] = MinusInclude /\ g[p + 1] = Clang(h) /\ p \notin Removed(g, R)
  <2>1. PICK j \in 1 .. Len(kept) - 1 : kept[j] = MinusInclude /\ kept[j + 1] = Clang(h)
    BY <1>3 DEF Included
  <2>2. \E p, q \in K : /\ p \in 1 .. N /\ q \in 1 .. N /\ p < q
                        /\ \A r \in K \cap (1 .. N) : ~(p < r /\ r < q)
                        /\ kept[j] = g[p] /\ kept[j + 1] = g[q]
    <3>1. kept = Chosen(g, K)[Len(g)]
      OBVIOUS
    <3> HIDE DEF K
    <3>2. j \in 1 .. (Len(Chosen(g, K)[Len(g)]) - 1)
      BY <3>1
    <3>3. NextTo(Chosen(g, K)[Len(g)], g, K, j)
      BY <1>1, <3>2, ChosenNextTo
    <3>4. QED
      BY <3>1, <3>3 DEF NextTo
  <2>3. PICK p, q \in K : /\ p \in 1 .. N /\ q \in 1 .. N /\ p < q
                          /\ \A r \in K \cap (1 .. N) : ~(p < r /\ r < q)
                          /\ kept[j] = g[p] /\ kept[j + 1] = g[q]
    BY <2>2
  <2>4. p \in 1 .. N - 1 /\ p + 1 \in 1 .. N
    <3>1. p # N
      BY <1>1, <2>1, <2>3
    <3>2. QED
      BY <1>1, <2>3, <3>1
  <2>5. p \notin Removed(g, R)
    BY <2>3 DEF Left
  <2>6. p + 1 \in K
    <3>1. g[p] = MinusInclude
      BY <2>1, <2>3
    <3>2. QED
      BY <2>4, <2>5, <3>1, IncludeStays
  <2>7. q = p + 1
    <3> HIDE DEF K
    <3>1. p + 1 \in K \cap (1 .. N)
      BY <2>4, <2>6
    <3>2. ~(p < p + 1 /\ p + 1 < q)
      BY <2>3, <3>1
    <3>3. QED
      BY <1>1, <2>3, <3>2
  <2>8. QED
    BY <2>1, <2>3, <2>4, <2>5, <2>7
<1>4. QED
  BY <1>2, <1>3

\* A header that an -include of the command line names reaches the second parse:
\* it stays with its -include, or the header tree expands it or prints it, and
\* under a policy that removes -include's not both unless the user asks for it; for
\* command lines that are Sensible.
THEOREM MinusIncludesAreProvidedHolds == Spec => [](Sensible => MinusIncludesAreProvided)
<1>1. ASSUME CLInv, Sensible PROVE MinusIncludesAreProvided
  <2> SUFFICES ASSUME status = "ready", KeepIncludes, NEW h \in DOMAIN Path, Included(h, argv)
               PROVE  /\ Included(h, ClangArgs) \/ InOutput(h)
                      /\ Expand_Minus_Includes(IncExpansionPolicy) /\ ~In(h, option.HeadersToExpand)
                           => ~(Included(h, ClangArgs) /\ InOutput(h))
    BY DEF MinusIncludesAreProvided
  <2> DEFINE X == Removed(Given, RemovedHeaders)
             L == Len(Given)
  <2>1. Regular(Given) /\ ClangArgs = Meant /\ argv \in CommandLines
    BY <1>1, GivenIsRegular DEF CLInv
  <2>2. PICK p \in 1 .. L - 1 : Given[p] = MinusInclude /\ Given[p + 1] = Clang(h)
    BY <2>1, IncludedInGiven
  <2>3. Stay(Given) = Left(Given, RemovedHeaders)
        /\ \A k \in 1 .. L : ToExpand(Given, k) <=> k \in X
    BY <2>1, StayIsLeft
  <2>4. \A k \in 1 .. L - 1 : Given[k] = MinusInclude /\ Given[k + 1] = Clang(h)
                                => (k \in X <=> PolicyExpands(h))
    <3> SUFFICES ASSUME NEW k \in 1 .. L - 1, Given[k] = MinusInclude, Given[k + 1] = Clang(h)
                 PROVE  k \in X <=> PolicyExpands(h)
      OBVIOUS
    <3>1. L \in Nat /\ k \in 1 .. L
      BY <2>1 DEF Regular
    <3>2. Clang(h).name = h
      BY DEF Clang
    <3> HIDE DEF X
    <3>3. ToExpand(Given, k) <=> Removes(h)
      BY <3>2 DEF ToExpand
    <3>4. QED
      BY <2>3, <3>1, <3>3 DEF Removes
  <2>5. CASE ~Expand_Minus_Includes(IncExpansionPolicy)
    <3>1. ClangArgs = Given
      BY <2>1, <2>5 DEF Meant, RemovesAny
    <3>2. Included(h, ClangArgs)
      BY <2>2, <3>1 DEF Included
    <3>3. QED
      BY <2>5, <3>2
  <2>6. CASE Expand_Minus_Includes(IncExpansionPolicy)
    <3>1. ClangArgs = Chosen(Given, Left(Given, RemovedHeaders))[L]
      BY <2>1, <2>3, <2>6 DEF Meant, RemovesAny
    <3>2. /\ \A k \in 1 .. L - 1 :
               Given[k] = MinusInclude /\ Given[k + 1] = Clang(h) =>
                 k \in X \/ Included(h, ClangArgs)
          /\ Included(h, ClangArgs) =>
               \E k \in 1 .. L - 1 :
                 Given[k] = MinusInclude /\ Given[k + 1] = Clang(h) /\ k \notin X
      BY <2>1, <3>1, KeptIncludes
    <3>3. Included(h, ClangArgs) \/ InOutput(h)
      BY <2>2, <2>4, <3>2 DEF InOutput
    <3>4. ASSUME Included(h, ClangArgs) PROVE ~PolicyExpands(h)
      <4> HIDE DEF X
      <4>1. QED
        BY <2>4, <3>2, <3>4
    <3>5. QED
      BY <3>3, <3>4 DEF InOutput
  <2>7. QED
    BY <2>5, <2>6
<1>2. CLInv => (Sensible => MinusIncludesAreProvided)
  BY <1>1
<1>3. QED
  BY <1>2, CLInvHolds, PTL
=============================================================================
