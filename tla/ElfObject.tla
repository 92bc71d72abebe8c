------------------------------ MODULE ElfObject ------------------------------
(***************************************************************************)
(* ElfObject of libcextract/ElfCXX.cpp: opening the object that            *)
(* -DCE_DEBUGINFO_PATH names, and decompressing it if it has to.           *)
(*                                                                         *)
(* A file is a record: its type; the yield of every chunk that read()      *)
(* returns, that is how much more can be decompressed once it is there;    *)
(* the chunk in which its first stream ends, 0 if it does not; and what    *)
(* goes wrong: "" or                                                       *)
(*   "data"       the decoder finds an error after the last chunk          *)
(*   "cut"        the data ends early                                      *)
(*   "io"         read() fails after the last chunk                        *)
(*   "elf"        libelf does not take it                                  *)
(* The decompressed data is 1, 2, ...: the number in memory says what is   *)
(* there; 0 is not initialised.  What is behind the first stream of a gzip *)
(* file, in its last chunk or a later one, is not read; zstd goes on with  *)
(* the next frame.                                                         *)
(***************************************************************************)
EXTENDS Naturals, Sequences, SequencesExt

CONSTANTS Files,        \* the files that a path may name
          CHUNK         \* the size of a buffer: CHUNK, ZSTD_DStreamOutSize()
ASSUME CHUNKOK == CHUNK \in Nat \ {0}
FileTypes == {"ELF", "GZ", "ZSTD", "UNKNOWN", "empty", "missing"}
ASSUME FilesOK ==
  \A f \in Files : /\ f.type \in FileTypes /\ f.yields \in Seq(Nat)
                   /\ f.ends \in 0 .. Len(f.yields)

VARIABLES
  file,                 \* the file that parser_path names
  state,                \* "none", "open", "read", "inflate", "zstd", "finish",
                        \* "throw", "alive", "failed", "done", "overread"
  ElfFd,                \* "closed" or "open"
  decoder,              \* the z_stream or ZSTD_DCtx: "none" or "open"
  chunk,                \* chunks that were read
  pending,              \* data that the decoder has not handed out yet
  total_out,            \* data that it has
  ret,                  \* what inflate() returned: "OK" or "END"
  DecompressedObj,      \* what the buffer holds, and its size, 0 if there is none
  dest_size,
  dest_current,
  image,                \* the size that elf_memory is told, 0 if there is no Elf
  dead                  \* destructions of the Parser part, parser_path in it

bufVars == <<DecompressedObj, dest_size, dest_current>>
inVars == <<chunk, pending, total_out>>
elfObjVars == <<file, state, ElfFd, decoder, inVars, ret, bufVars, image, dead>>

\* What Get_File_Type returns; it throws if there is nothing to read.
Get_File_Type(f) == IF f.type = "empty" THEN "throw" ELSE f.type
NoFile == [type |-> "missing", yields |-> <<>>, ends |-> 0, fault |-> ""]
DataSize(f) == FoldSeq(LAMBDA x, y : x + y, 0, f.yields)
Compressed(f) == f.type \in {"GZ", "ZSTD"}
Blank(n) == [k \in 1 .. n |-> 0]
Least(a, b) == IF a < b THEN a ELSE b

ElfInit ==
  /\ file = NoFile /\ state = "none"
  /\ ElfFd = "closed" /\ decoder = "none"
  /\ chunk = 0 /\ pending = 0 /\ total_out = 0 /\ ret = "OK"
  /\ DecompressedObj = <<>> /\ dest_size = 0 /\ dest_current = 0
  /\ image = 0 /\ dead = 0

-----------------------------------------------------------------------------
\* open() and Get_File_Type, which leaves the file open when it throws.
Open(f) ==
  /\ state \in {"none", "done"}
  /\ file' = f
  /\ ElfFd' = IF f.type = "missing" THEN "closed" ELSE "open"
  /\ state' = IF f.type = "missing" \/ Get_File_Type(f) = "throw" THEN "failed" ELSE "open"
  /\ dead' = IF state' = "failed" THEN 1 ELSE 0
  /\ chunk' = 0 /\ pending' = 0 /\ total_out' = 0 /\ ret' = "OK"
  /\ UNCHANGED <<decoder, bufVars, image>>

\* A file that is ELF as it is, or none at all.
BeginElf ==
  /\ state = "open" /\ ~Compressed(file)
  /\ IF Get_File_Type(file) = "ELF" /\ file.fault # "elf"
     THEN state' = "alive" /\ image' = DataSize(file) /\ UNCHANGED <<ElfFd, dead>>
     ELSE state' = "failed" /\ ElfFd' = "closed" /\ dead' = 1 /\ UNCHANGED image
  /\ UNCHANGED <<file, decoder, inVars, ret, bufVars>>

\* The beginning of decompress_gz and decompress_zstd.
BeginDecompress ==
  /\ state = "open" /\ Compressed(file)
  /\ dest_size' = CHUNK
  /\ decoder' = "open"
  /\ state' = "read"
  /\ UNCHANGED <<file, ElfFd, inVars, ret, DecompressedObj, dest_current, image, dead>>

AtEnd == chunk = Len(file.yields)
AfterLast_NoBreak == IF file.fault = "io" THEN "overread" ELSE "inflate"    \* mutant
AfterLast == IF file.fault = "io" THEN "overread" ELSE "finish"

\* read(): a chunk, nothing, or -1, which no test sees because the variable
\* is unsigned: the decoder is let loose on what is behind the buffer.
Read ==
  /\ state = "read"
  /\ IF AtEnd
     THEN state' = AfterLast /\ UNCHANGED <<chunk, pending>>
     ELSE /\ chunk' = chunk + 1
          /\ pending' = pending + file.yields[chunk']
          /\ state' = IF file.type = "GZ" THEN "inflate" ELSE "zstd"
  /\ UNCHANGED <<file, ElfFd, decoder, total_out, ret, bufVars, image, dead>>

\* The size after "double the buffer when needed"; realloc() keeps what is there.
Room(need, at) == IF need > dest_size - at THEN dest_size * 2 ELSE dest_size
\* memcpy() of the next n of the data.
Written(at, n) ==
  DecompressedObj \o Blank(at - Len(DecompressedObj)) \o [k \in 1 .. n |-> total_out + k]

BadData == file.fault = "data" /\ AtEnd

\* The freeing of the decoder, and the throw.
Throw ==
  /\ decoder' = "none"
  /\ state' = "throw"
  /\ UNCHANGED <<file, ElfFd, inVars, ret, bufVars, image, dead>>

Handed(n) == pending' = pending - n /\ total_out' = total_out + n

Store_AtStart(have) ==                    \* mutant: what is there does not count
  /\ dest_size' = Room(have, 0)
  /\ DecompressedObj' = Written(dest_current, have)
  /\ dest_current' = dest_current + have
Store(have) ==
  /\ dest_size' = Room(have, dest_current)
  /\ DecompressedObj' = Written(dest_current, have)
  /\ dest_current' = dest_current + have

\* One call of inflate(), which hands out what it can.  It may see the end of
\* the stream only in the call after the one that filled the buffer.
Inflate ==
  /\ state = "inflate"
  /\ \/ BadData /\ Throw
     \/ /\ ~BadData \/ pending > 0
        /\ LET have == Least(CHUNK, pending)
               last == have = pending /\ chunk = file.ends
           IN  /\ Handed(have)
               /\ Store(have)
               /\ \/ last /\ ret' = "END"
                  \/ (~last \/ have = CHUNK) /\ ret' = "OK"
               /\ state' = IF have = CHUNK THEN "inflate"
                           ELSE IF ret' = "END" THEN "finish" ELSE "read"
        /\ UNCHANGED <<file, ElfFd, decoder, chunk, image, dead>>

\* One call of ZSTD_decompressStream.  When it fills the buffer it may have
\* taken all of the input, and keep the rest of the data for a later call.
Decompress ==
  /\ state = "zstd"
  /\ \/ BadData /\ Throw
     \/ /\ ~BadData \/ pending > 0
        /\ LET pos == Least(CHUNK, pending)
           IN  /\ Handed(pos)
               /\ dest_size' = Room(CHUNK, dest_current)
               /\ DecompressedObj' = Written(dest_current, pos)
               /\ dest_current' = dest_current + CHUNK
               /\ state' \in IF pos < CHUNK THEN {"read"} ELSE {"read", "zstd"}
        /\ UNCHANGED <<file, ElfFd, decoder, chunk, ret, image, dead>>

\* The decoder is freed, and elf_memory told a size: for gzip that is the last
\* return value of inflate(), Z_STREAM_END being 1.
Z_STREAM_END == 1
Finish ==
  /\ state = "finish"
  /\ decoder' = "none"
  /\ IF (file.type = "GZ" /\ ret # "END") \/ file.fault = "elf"
     THEN state' = "throw" /\ UNCHANGED <<ElfFd, image>>
     ELSE /\ image' = IF file.type = "GZ" THEN Z_STREAM_END ELSE dest_size
          /\ ElfFd' = "closed"
          /\ state' = "alive"
  /\ UNCHANGED <<file, inVars, ret, bufVars, dead>>

-----------------------------------------------------------------------------
\* ~ElfObject: the Elf, the buffer and the file, then the Parser part.
Destroyed_KeepsBuffer ==        \* mutant
  /\ image' = 0 /\ ElfFd' = "closed" /\ UNCHANGED bufVars
Destroyed ==
  /\ image' = 0 /\ ElfFd' = "closed"
  /\ DecompressedObj' = <<>> /\ dest_size' = 0 /\ dest_current' = 0

\* catch: the destructor is called, and as the constructor throws the Parser
\* part is destroyed once more.
Catch ==
  /\ state = "throw"
  /\ Destroyed
  /\ dead' = 2
  /\ state' = "failed"
  /\ UNCHANGED <<file, decoder, inVars, ret>>

\* The object is read and goes out of scope.
Analyzed ==
  /\ state = "alive"
  /\ Destroyed
  /\ dead' = 1
  /\ state' = "done"
  /\ UNCHANGED <<file, decoder, inVars, ret>>

ElfNext ==
  \/ BeginElf \/ BeginDecompress \/ Read \/ Inflate \/ Decompress \/ Finish
  \/ Catch \/ Analyzed

-----------------------------------------------------------------------------
(* Properties *)

\* Nothing is written behind the buffer, however the decoder fills its chunks;
\* and what gzip decompressed is in it from the start, without a gap.
BufferHoldsPrefix ==
  /\ dest_current <= dest_size
  /\ Len(DecompressedObj) <= dest_size
  /\ file.type = "GZ" /\ dest_size # 0 =>
       DecompressedObj = [k \in 1 .. total_out |-> k]

\* Whatever fails, and wherever, nothing stays open or allocated when the
\* object is gone; a file whose type can not be read is the exception.
NothingLeftOpen ==
  state \in {"failed", "done"} =>
    /\ decoder = "none" /\ image = 0 /\ dest_size = 0
    /\ ElfFd = "closed" \/ file.type = "empty"

\* The comment on DecompressedObj: "Memory allocated to hold the decompressed
\* ELF images".  libelf is given all of the data of an intact file, and in one
\* piece.
ImageIsWhole ==
  state = "alive" /\ Compressed(file) /\ file.fault = "" =>
    /\ image >= DataSize(file)
    /\ DecompressedObj = [k \in 1 .. DataSize(file) |-> k]
=============================================================================
