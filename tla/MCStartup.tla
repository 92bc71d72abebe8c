------------------------------ MODULE MCStartup ------------------------------
(***************************************************************************)
(* The program name, up to three more items, and the option that names the *)
(* functions.  An -include and its header are one item, so that several    *)
(* can follow each other.  The decoders' buffers hold two units, and files *)
(* need up to four of them.                                                *)
(***************************************************************************)
EXTENDS Startup

Opt(kind, name) == [kind |-> kind, name |-> name, eq |-> FALSE, value |-> <<>>]
OptEq(kind, name, value) == [kind |-> kind, name |-> name, eq |-> TRUE, value |-> value]

\* A header of the kernel, of the system, of the compiler, and of the program.
\* "missing" is found by no search.
MCPath ==
  [kconfig |-> <<"src", "include", "kconfig.h">>, stdc |-> <<"usr", "include", "stdc.h">>,
   stddef |-> <<"usr", "lib64", "clang", "stddef.h">>, local |-> <<"src", "local.h">>]
Includes == {<<Clang("-include"), Clang(h)>> : h \in {"kconfig", "stdc", "stddef", "local", "missing"}}

CE(name, value) == <<OptEq("ce", name, value)>>
Others ==
  {<<Opt("gcc", "-Wno-restrict")>>, <<Clang("file.c")>>, <<Opt("help", "--help")>>,
   <<Opt("kernel", "-D__KERNEL__")>>, <<Opt("ibt", "-D__USE_IBT__")>>,
   <<OptEq("modname", "-DKBUILD_MODNAME", <<"mod">>)>>,
   <<Opt("ce", "KEEP_INCLUDES")>>, <<Opt("ce", "NO_SUCH_OPTION")>>,
   CE("KEEP_INCLUDES", <<"system">>), CE("KEEP_INCLUDES", <<"compiler">>),
   CE("KEEP_INCLUDES", <<"unknown">>), CE("EXPAND_INCLUDES", <<"kconfig", "local">>),
   CE("OUTPUT_FILE", <<>>), CE("OUTPUT_FILE", <<"", "a">>)}

F(type, yields, fault) ==
  [type |-> type, yields |-> yields, fault |-> fault,
   ends |-> IF fault \in {"", "elf"} THEN Len(yields) ELSE 0]
MCDisk ==
  [elf |-> F("ELF", <<1>>, ""), badelf |-> F("ELF", <<1>>, "elf"), text |-> F("UNKNOWN", <<1>>, ""),
   void |-> F("empty", <<>>, ""),
   gz |-> F("GZ", <<3, 4>>, ""), gzfull |-> F("GZ", <<4, 0, 2>>, ""), gzcut |-> F("GZ", <<1, 4>>, "cut"),
   gzbad |-> F("GZ", <<2, 3>>, "data"), gzio |-> F("GZ", <<1>>, "io"), gzelf |-> F("GZ", <<1>>, "elf"),
   gztwo |-> [F("GZ", <<1, 2, 3>>, "") EXCEPT !.ends = 2],
   zst |-> F("ZSTD", <<3, 4>>, ""), zstfull |-> F("ZSTD", <<2, 2>>, ""), zstcut |-> F("ZSTD", <<3>>, "cut"),
   zstbad |-> F("ZSTD", <<1, 2>>, "data"), zstio |-> F("ZSTD", <<1>>, "io"), zstelf |-> F("ZSTD", <<2>>, "elf")]
MCFiles == {MCDisk[n] : n \in DOMAIN MCDisk}
MCSubstrings == {<<"mod", "gz">>}

Debuginfos == {CE("DEBUGINFO_PATH", <<n>>) : n \in DOMAIN MCDisk \cup {"none"}}
                \cup {CE("DEBUGINFO_PATH", <<"gz", n>>) : n \in {"elf", "zstbad", "gzfull"}}

Program == <<Clang("clang-extract")>>
Extract == CE("EXTRACT_FUNCTIONS", <<"f">>)
Anything == Includes \cup Others
MCCommandLines ==
  {Program \o x \o y \o z \o Extract : x, y, z \in Anything}
    \cup {Program \o d \o x \o Extract : d \in Debuginfos, x \in Anything}
    \cup {Program \o x : x \in Anything}
=============================================================================
