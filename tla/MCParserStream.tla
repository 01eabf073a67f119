---------------------------- MODULE MCParserStream ----------------------------
(***************************************************************************)
(* Alphabets of lines and keyword shapes for ParserStream.  The names are  *)
(* keywords of share/keywords of each kind; EQLDIMS stands for TABDIMS and *)
(* all the other keywords that hold sizes.                                 *)
(***************************************************************************)
EXTENDS ParserStream

Keyword(size, count, from, tables, action, integer) ==
  [size |-> size, count |-> count, from |-> from, tables |-> tables,
   action |-> action, integer |-> integer]

Fixed(n) == Keyword("FIXED", n, "EQLDIMS", FALSE, "INTERNALIZE", FALSE)
SizeOf(k, tables) == Keyword("OTHER", 0, k, tables, "INTERNALIZE", FALSE)
Slash == Keyword("SLASH", 0, "EQLDIMS", FALSE, "INTERNALIZE", FALSE)
Unknown == Keyword("UNKNOWN", 0, "EQLDIMS", FALSE, "INTERNALIZE", FALSE)

Named(k) == [kind |-> "name", name |-> k, exact |-> TRUE, value |-> Word]
Commented(k) == [kind |-> "name", name |-> k, exact |-> FALSE, value |-> Word]
Text(v) == [kind |-> "text", value |-> v]
Ended(v) == [kind |-> "end", value |-> v]
Quoted == [kind |-> "quote", value |-> Word]
SlashLine == [kind |-> "slash", value |-> Default]
Nothing == [kind |-> "nothing", value |-> Default]
Comment == [kind |-> "comment", value |-> Default]

MCValue == {1, 2, Alias}
MCReadable == {1, Blank}

(* One file with keywords of all sizes.                                    *)
RecordsName ==
  {"GRID", "TITLE", "EQLDIMS", "EQUIL", "PVTO", "DATES", "VFPINJ", "XYZ"}
RecordsShape ==
  [k \in RecordsName \ {"XYZ"} |->
     CASE k = "GRID" -> Fixed(0)
       [] k = "TITLE" -> Fixed(1)
       [] k = "EQLDIMS" ->
            [Fixed(1) EXCEPT !.integer = TRUE]
       [] k = "EQUIL" -> SizeOf("EQLDIMS", FALSE)
       [] k = "PVTO" -> SizeOf("EQLDIMS", TRUE)
       [] k = "DATES" -> Slash
       [] k = "VFPINJ" -> Unknown]
RecordsLine ==
  {Named(k) : k \in RecordsName}
    \cup {Commented("EQLDIMS"), Text(2), Ended(2), Quoted, SlashLine,
          Nothing, Comment}

(* Files that include files.                                               *)
FilesName == {"INCLUDE", "PATHS", "END", "ENDINC", "DATES", "RUNSUM",
              "WCONINJ", "EQLDIMS", "XYZ"}
FilesShape ==
  [k \in FilesName \ {"EQLDIMS", "XYZ"} |->
     CASE k = "INCLUDE" -> Fixed(1)
       [] k = "PATHS" -> Slash
       [] k \in {"END", "ENDINC"} -> Fixed(0)
       [] k = "DATES" -> Slash
       [] k = "RUNSUM" -> [Fixed(0) EXCEPT !.action = "IGNORE_WARNING"]
       [] k = "WCONINJ" -> [Slash EXCEPT !.action = "THROW_EXCEPTION"]]
FilesLine ==
  {Named(k) : k \in FilesName \ {"EQLDIMS"}} \cup {Ended(1), Ended(Alias), SlashLine}
=============================================================================
