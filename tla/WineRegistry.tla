---------------------------- MODULE WineRegistry ----------------------------
(***************************************************************************)
(* The registry files of a Proton prefix: the reader of game/registry.rs    *)
(* (parse_hive, get_value) and the writer of skse/proton.rs                 *)
(* (write_dll_overrides), which search the same text in two ways.           *)
(*                                                                          *)
(* A line is a header with the spelling of its path, the removal of a key,  *)
(* a value with its continuation lines, or anything else (a time, a         *)
(* comment, a blank).  What a value's text means is abstracted.             *)
(***************************************************************************)
EXTENDS Naturals, Sequences, FiniteSets, SequencesExt

CONSTANTS
  Lower,        \* to_lowercase of every value name
  Overrides,    \* the key of the DLL overrides
  Dlls,         \* the DLLs of the script extender, in the order of the table
  Native,       \* "native,builtin"
  Registries,   \* what user.reg may hold
  MaxWrites,    \* bound: calls of write_dll_overrides
  Nowhere       \* no key has been opened

VARIABLES
  reg,       \* the lines of user.reg
  regTmp,    \* those of user.tmp while it waits to be renamed
  writes

regVars == <<reg, regTmp, writes>>

\* One backslash between the parts of the path, or two as Wine writes it.
Plain(key) == [kind |-> "header", key |-> key, escaped |-> FALSE]
Escaped(key) == [kind |-> "header", key |-> key, escaped |-> TRUE]
Removal == [kind |-> "removal"]
Value(name, v) == [kind |-> "value", name |-> name, value |-> v]
Other == [kind |-> "other"]

Opens(line) == line.kind \in {"header", "removal"}

\* current_key: both spellings of a path are the same key.
KeyAt(t, i) ==
  LET heads == {j \in 1 .. i : Opens(t[j])}
  IN IF heads = {} \/ t[Max(heads)].kind = "removal" THEN Nowhere ELSE t[Max(heads)].key

\* The values of the hive, and of two lines for one the last.
Entries(t) == {i \in DOMAIN t : t[i].kind = "value" /\ KeyAt(t, i) # Nowhere}
EntryAt(t, i) == <<KeyAt(t, i), Lower[t[i].name]>>
Hive(t) ==
  [p \in {EntryAt(t, i) : i \in Entries(t)} |->
     t[Max({i \in Entries(t) : EntryAt(t, i) = p})].value]

-----------------------------------------------------------------------------
Starts(t) == {i \in DOMAIN t : t[i] = Plain(Overrides)}

\* The line after the section: the next one that begins with a bracket.
SectionEnd(t) ==
  LET next == {i \in DOMAIN t : i > Min(Starts(t)) /\ Opens(t[i])}
  IN IF next = {} THEN Len(t) + 1 ELSE Min(next)

\* The lines for the DLLs at some places of the table, in its order.
LinesFor(places) ==
  LET Nth(k) == CHOOSE i \in places : Cardinality({j \in places : j <= i}) = k
  IN [k \in 1 .. Cardinality(places) |-> Value(Dlls[Nth(k)], Native)]

\* Mutant of Missing: a line for the DLL in any section counts.
MissingAnywhere(t) ==
  LET there == {t[i].name : i \in {j \in DOMAIN t : t[j].kind = "value"}}
  IN LinesFor({i \in DOMAIN Dlls : Dlls[i] \notin there})

\* The names that have a line in the section that is spelt the same.
Present(t) ==
  {t[i].name : i \in {j \in Min(Starts(t)) .. SectionEnd(t) - 1 : t[j].kind = "value"}}

\* Lines for the DLLs without one.
Missing(t) == LinesFor({i \in DOMAIN Dlls : Dlls[i] \notin Present(t)})

\* The new text: at the end of the first section of that spelling, or of the file.
WithOverrides(t) ==
  IF Starts(t) = {}
    THEN t \o <<Other, Plain(Overrides), Other>>
           \o [i \in DOMAIN Dlls |-> Value(Dlls[i], Native)]
    ELSE SubSeq(t, 1, SectionEnd(t) - 1) \o Missing(t)
           \o SubSeq(t, SectionEnd(t), Len(t))

RegInit == reg \in Registries /\ regTmp = <<>> /\ writes = 0

WriteTmp ==
  /\ writes < MaxWrites /\ regTmp = <<>>
  /\ regTmp' = WithOverrides(reg) /\ writes' = writes + 1
  /\ UNCHANGED reg

RenameTmp ==
  /\ regTmp # <<>>
  /\ reg' = regTmp /\ regTmp' = <<>>
  /\ UNCHANGED writes

\* The rename fails or the program stops; the next write starts over.
RenameFails == regTmp # <<>> /\ regTmp' = <<>> /\ UNCHANGED <<reg, writes>>

RegNext == WriteTmp \/ RenameTmp \/ RenameFails

-----------------------------------------------------------------------------
Read(t, p) == IF p \in DOMAIN Hive(t) THEN Hive(t)[p] ELSE Nowhere
Ours == {<<Overrides, Lower[Dlls[i]]>> : i \in DOMAIN Dlls}

\* As the reader sees it, a write of write_dll_overrides changes no value but the
\* overrides of its DLLs.
OthersReadStep ==
  \A p \in (DOMAIN Hive(reg) \cup DOMAIN Hive(reg')) \ Ours :
    Read(reg', p) = Read(reg, p)

\* "Running it twice produces the same result as running it once."
WriteIsIdempotent == writes > 0 /\ regTmp # <<>> => WithOverrides(regTmp) = regTmp

\* After a write the reader finds every DLL overridden: with native,builtin, or, where
\* the file had a line for it, with what one of its lines said.
OverridesRead ==
  regTmp # <<>> =>
    \A p \in Ours : Read(regTmp, p) \in {Native} \cup
      {reg[i].value : i \in {j \in Entries(reg) : EntryAt(reg, j) = p}}
=============================================================================
