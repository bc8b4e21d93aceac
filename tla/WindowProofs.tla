---------------------------- MODULE WindowProofs ----------------------------
(***************************************************************************)
(* Proofs about Profiles, for any number of profiles, mods and threads,    *)
(* and about the window over it, for any number of reload and install      *)
(* threads and a channel of any length.                                    *)
(***************************************************************************)
EXTENDS Window, ModListVecs, FiniteSetTheorems, SequenceTheorems, TLAPS

(***************************************************************************)
(* Profiles.                                                               *)
(*                                                                         *)
(* Every step of every thread runs at most one statement on the tables and *)
(* moves at most one operation on, so the invariant has two halves: what   *)
(* the statements keep (TablesInv) and what each operation's locals are    *)
(* when a statement uses them (GoodCalls).  First come the lemmas on what  *)
(* the operators of ModOrder preserve: an order stays an order, it assigns *)
(* no position twice and it leaves no gap.  With one thread SerialInv adds *)
(* that what an operation has read is still true when it writes, and how   *)
(* far the copy of a list has come; from it follows ListsKept.             *)
(***************************************************************************)

\* The ranks of n ids lie in 1 .. n: list_profile_mods returns one entry per
\* row.
LEMMA RankedType ==
  ASSUME NEW S, IsFiniteSet(S), NEW key \in [S -> Int]
  PROVE  Ranked(key) \in [S -> 1 .. Cardinality(S)]
<1>1. ASSUME NEW m \in S
      PROVE  Cardinality({k \in S : key[k] <= key[m]}) \in 1 .. Cardinality(S)
  <2> DEFINE T == {k \in S : key[k] <= key[m]}
  <2>1. IsFiniteSet(T) /\ Cardinality(T) <= Cardinality(S)
    BY FS_Subset, T \in SUBSET S
  <2>2. m \in T
    OBVIOUS
  <2>3. Cardinality(T) # 0
    BY <2>1, <2>2, FS_EmptySet
  <2>4. Cardinality(T) \in Nat /\ Cardinality(S) \in Nat
    BY <2>1, FS_CardinalityType
  <2> HIDE DEF T
  <2>5. Cardinality(T) \in 1 .. Cardinality(S)
    BY <2>1, <2>3, <2>4
  <2>6. QED
    BY <2>5 DEF T
<1>2. DOMAIN key = S
  OBVIOUS
<1>3. QED
  BY <1>1, <1>2 DEF Ranked

\* A smaller key has a smaller rank, an equal key an equal one.
LEMMA RankedMonotone ==
  ASSUME NEW S, IsFiniteSet(S), NEW key \in [S -> Int],
         NEW x \in S, NEW y \in S, key[x] < key[y]
  PROVE  Ranked(key)[x] < Ranked(key)[y]
<1> DEFINE Below(z) == {k \in S : key[k] <= key[z]}
<1>1. Below(x) \in SUBSET Below(y)
  OBVIOUS
<1>2. y \in Below(y) /\ y \notin Below(x)
  OBVIOUS
<1>3. IsFiniteSet(Below(y))
  BY FS_Subset, Below(y) \in SUBSET S
<1>4. /\ IsFiniteSet(Below(x))
      /\ Cardinality(Below(x)) <= Cardinality(Below(y))
      /\ Cardinality(Below(x)) # Cardinality(Below(y))
  <2> HIDE DEF Below
  <2> QED BY <1>1, <1>2, <1>3, FS_Subset
<1>5. Cardinality(Below(x)) \in Nat /\ Cardinality(Below(y)) \in Nat
  <2> HIDE DEF Below
  <2> QED BY <1>3, <1>4, FS_CardinalityType
<1>6. Ranked(key)[x] = Cardinality(Below(x)) /\ Ranked(key)[y] = Cardinality(Below(y))
  BY DOMAIN key = S DEF Ranked
<1> HIDE DEF Below
<1>7. QED
  BY <1>4, <1>5, <1>6

\* Distinct keys have distinct ranks.
LEMMA RankedOneToOne ==
  ASSUME NEW S, IsFiniteSet(S), NEW key \in [S -> Int], OneToOne(key)
  PROVE  OneToOne(Ranked(key))
<1>1. DOMAIN Ranked(key) = S
  BY DEF Ranked
<1>2. Ranked(key) \in [S -> 1 .. Cardinality(S)]
  BY RankedType
<1>3. SUFFICES ASSUME NEW x \in S, NEW y \in S, x # y
               PROVE  Ranked(key)[x] # Ranked(key)[y]
  BY <1>1 DEF OneToOne
<1>4. key[x] # key[y]
  BY <1>3 DEF OneToOne
<1>5. CASE key[x] < key[y]
  <2>1. Ranked(key)[x] < Ranked(key)[y]
    BY <1>5, RankedMonotone
  <2>2. QED
    BY <2>1, <1>2
<1>6. CASE key[y] < key[x]
  <2>1. Ranked(key)[y] < Ranked(key)[x]
    BY <1>6, RankedMonotone
  <2>2. QED
    BY <2>1, <1>2
<1>7. QED
  BY <1>4, <1>5, <1>6

\* A one-to-one order of n ids into 1 .. n uses every position.
LEMMA OneToOneIsDense ==
  ASSUME NEW S, IsFiniteSet(S), NEW f \in [S -> 1 .. Cardinality(S)], OneToOne(f)
  PROVE  {f[m] : m \in S} = 1 .. Cardinality(S)
<1>1. Cardinality(S) \in Nat
  BY FS_CardinalityType
<1>2. IsFiniteSet(1 .. Cardinality(S)) /\ Cardinality(1 .. Cardinality(S)) = Cardinality(S)
  BY <1>1, FS_Interval
<1>3. f \in Injection(S, 1 .. Cardinality(S))
  BY DEF Injection, IsInjective, OneToOne
<1>4. f \in Surjection(S, 1 .. Cardinality(S))
  BY <1>2, <1>3, FS_Injection
<1>5. QED
  BY <1>4 DEF Surjection

\* An order of the mods in S as replace_all_profile_mods takes it: one
\* position in 1 .. n for each of the n mods, none twice.
OrderOf(S) == {f \in [S -> 1 .. Cardinality(S)] : OneToOne(f)}

\* Ranking rows with distinct priorities gives an order.
LEMMA RankedIsOrder ==
  ASSUME NEW S, IsFiniteSet(S), NEW key \in [S -> Int], OneToOne(key)
  PROVE  Ranked(key) \in OrderOf(S)
BY RankedType, RankedOneToOne DEF OrderOf

\* remove_mod_from_profile writes an order of the mods it keeps.
LEMMA WithoutIsOrder ==
  ASSUME NEW S, IsFiniteSet(S), NEW order \in OrderOf(S), NEW m
  PROVE  Without(order, m) \in OrderOf(S \ {m})
<1> DEFINE kept == [k \in S \ {m} |-> order[k]]
<1>1. IsFiniteSet(S \ {m})
  BY FS_RemoveElement
<1>2. Cardinality(S) \in Nat
  BY FS_CardinalityType
<1>3. kept \in [S \ {m} -> Int]
  BY <1>2 DEF OrderOf
<1>4. OneToOne(kept)
  BY DEF OneToOne, OrderOf
<1>5. Without(order, m) = Ranked(kept)
  BY DEF Without, OrderOf
<1> HIDE DEF kept
<1>6. QED
  BY <1>1, <1>3, <1>4, <1>5, RankedIsOrder

\* move_mod_to writes an order of the same mods, wherever it moves the mod.
LEMMA MovedIsOrder ==
  ASSUME NEW S, IsFiniteSet(S), NEW order \in OrderOf(S),
         NEW m \in S, NEW target \in Int
  PROVE  Moved(order, m, target) \in OrderOf(S)
<1> DEFINE place == IF target > order[m] THEN 2 * target + 1 ELSE 2 * target - 1
           key == [k \in S |-> IF k # m THEN 2 * order[k] ELSE place]
<1>1. Cardinality(S) \in Nat
  BY FS_CardinalityType
<1>2. \A k \in S : order[k] \in Int
  BY <1>1 DEF OrderOf
<1>3. key \in [S -> Int]
  BY <1>2
<1>4. OneToOne(key)
  <2>1. SUFFICES ASSUME NEW x \in S, NEW y \in S, x # y
                 PROVE  key[x] # key[y]
    BY DEF OneToOne
  <2>2. order[x] # order[y]
    BY <2>1 DEF OneToOne, OrderOf
  <2>3. QED
    BY <1>2, <2>1, <2>2
<1>5. Moved(order, m, target) = Ranked(key)
  BY DEF Moved, OrderOf
<1> HIDE DEF key
<1>6. QED
  BY <1>3, <1>4, <1>5, RankedIsOrder

\* reorder_profile_mods writes an order of the listed mods.
LEMMA IndexOfIsOrder ==
  ASSUME NEW S, IsFiniteSet(S), NEW ids, NEW X,
         ids \in [1 .. Cardinality(S) -> X], ListsExactly(ids, S)
  PROVE  IndexOf(ids) \in OrderOf(S)
<1> DEFINE I == 1 .. Cardinality(S)
           PlaceOf(m) == CHOOSE i \in I : ids[i] = m
<1>1. DOMAIN ids = I /\ S = {ids[i] : i \in I}
  BY DEF ListsExactly
<1>2. \A m \in S : PlaceOf(m) \in I /\ ids[PlaceOf(m)] = m
  BY <1>1
<1>3. IndexOf(ids) = [m \in S |-> PlaceOf(m)]
  BY <1>1 DEF IndexOf
<1> HIDE DEF I, PlaceOf
<1>4. OneToOne(IndexOf(ids))
  BY <1>2, <1>3 DEF OneToOne
<1>5. IndexOf(ids) \in [S -> I]
  BY <1>2, <1>3
<1>6. QED
  BY <1>4, <1>5 DEF OrderOf, I

\* The loop of clone_profile takes the mod of the list with the least position:
\* a finite list has a head, the mod with the fewest mods before it.
LEMMA HeadInOrder ==
  ASSUME NEW S, IsFiniteSet(S), S # {}, NEW order \in [S -> Int]
  PROVE  HeadOf(order) \in S /\ \A k \in S : order[HeadOf(order)] <= order[k]
<1> DEFINE Before(m) == {k \in S : order[k] < order[m]}
           T == {Before(m) : m \in S}
<1>1. T \subseteq FiniteSubsetsOf(S) /\ T # {}
  <2>1. \A U \in SUBSET S : U \in FiniteSubsetsOf(S)
    BY FS_Subset DEF FiniteSubsetsOf
  <2>2. QED
    BY <2>1
<1>2. PICK U \in T : \A V \in T : ~ (<<V, U>> \in StrictSubsetOrdering(S))
  <2> HIDE DEF T
  <2> QED BY <1>1, WFMin, FS_StrictSubsetOrderingWellFounded
<1>3. PICK m \in S : U = Before(m)
  OBVIOUS
<1>4. ASSUME NEW k \in S, order[k] < order[m]
      PROVE  FALSE
  <2>1. Before(k) \subseteq Before(m) /\ k \in Before(m) /\ k \notin Before(k)
    BY <1>4
  <2>2. <<Before(k), U>> \in StrictSubsetOrdering(S)
    BY <2>1, <1>1, <1>3 DEF StrictSubsetOrdering, FiniteSubsetsOf
  <2>3. QED
    BY <2>2, <1>2
<1>5. \A k \in S : order[m] <= order[k]
  BY <1>4
<1>6. QED
  BY <1>5 DEF HeadOf

-----------------------------------------------------------------------------
TablesInv ==
  /\ TablesTypeOK
  /\ RowsHaveOwners
  /\ PrioritiesUnique
  /\ AtMostOneActive

\* The locals of an operation at the statement that uses them.
GoodCalls ==
  {k \in Calls :
     /\ k.at = "insert" => k.next # 0
     /\ k.at = "replace" => k.list \in OrderOf(DOMAIN k.list)
     /\ k.at \in {"cloneInsert", "cloneList"} => k.src \in ProfileIds}

IInv == TablesInv /\ call \in [Conns -> GoodCalls]

\* What a step may do to the tables.
Statement ==
  \/ UNCHANGED tables
  \/ \E p \in ProfileIds : InsertProfileRow(p)
  \/ \E m \in ModIds : InsertModRow(m)
  \/ \E p : SetSoleActive(p)
  \/ \E p : DropProfile(p)
  \/ \E m : DropMod(m)
  \/ \E p, m, n : n \in Nat \ {0} /\ m \in ModIds /\ InsertRow(p, m, n)
  \/ \E p, order, on : order \in Orders /\ ReplaceRows(p, order, on)
  \/ \E p \in ProfileIds, m \in ModIds, b \in BOOLEAN : SetEnabledFlag(p, m, b)

\* Every statement keeps the constraints of the tables: foreign keys and their
\* cascades, the two UNIQUE constraints of profile_mods, one active profile.
LEMMA StatementKeepsTables ==
  ASSUME TablesInv, Statement
  PROVE  TablesInv'
<1> USE DEF TablesInv, TablesTypeOK, RowsHaveOwners, PrioritiesUnique,
        AtMostOneActive, ModsIn
<1>1. CASE UNCHANGED tables
  BY <1>1 DEF tables
<1>2. CASE \E p \in ProfileIds : InsertProfileRow(p)
  BY <1>2 DEF InsertProfileRow
<1>3. CASE \E m \in ModIds : InsertModRow(m)
  BY <1>3 DEF InsertModRow
<1>4. CASE \E p : SetSoleActive(p)
  BY <1>4 DEF SetSoleActive
<1>5. CASE \E p : DropProfile(p)
  <2>1. PICK p : DropProfile(p)
    BY <1>5
  <2>2. \A q \in ProfileIds : prio'[q] = IF q = p THEN [m \in ModIds |-> 0] ELSE prio[q]
    BY <2>1 DEF DropProfile
  <2>3. \A q \in ProfileIds : enabled'[q] = IF q = p THEN {} ELSE enabled[q]
    BY <2>1 DEF DropProfile
  <2>4. TablesTypeOK'
    BY <2>1, <2>2, <2>3 DEF DropProfile
  <2>5. RowsHaveOwners' /\ PrioritiesUnique' /\ AtMostOneActive'
    BY <2>1, <2>2, <2>3 DEF DropProfile
  <2>6. QED
    BY <2>4, <2>5
<1>6. CASE \E m : DropMod(m)
  <2>1. PICK m : DropMod(m)
    BY <1>6
  <2>2. \A q \in ProfileIds, x \in ModIds : prio'[q][x] = IF x = m THEN 0 ELSE prio[q][x]
    BY <2>1 DEF DropMod
  <2>3. TablesTypeOK'
    BY <2>1 DEF DropMod
  <2>4. RowsHaveOwners'
    BY <2>1, <2>2 DEF DropMod
  <2>5. PrioritiesUnique' /\ AtMostOneActive'
    BY <2>1, <2>2 DEF DropMod
  <2>6. QED
    BY <2>3, <2>4, <2>5
<1>7. CASE \E p, m, n : n \in Nat \ {0} /\ m \in ModIds /\ InsertRow(p, m, n)
  <2>1. PICK p, m, n : n \in Nat \ {0} /\ m \in ModIds /\ InsertRow(p, m, n)
    BY <1>7
  <2>2. p \in profiles /\ p \in ProfileIds /\ m \in mods
    BY <2>1 DEF InsertRow, KeysExist
  <2>3. \A q \in ProfileIds, x \in ModIds :
          prio'[q][x] = IF q = p /\ x = m THEN n ELSE prio[q][x]
    BY <2>1, <2>2 DEF InsertRow
  <2>4. TablesTypeOK'
    BY <2>1, <2>2 DEF InsertRow
  <2>5. RowsHaveOwners'
    BY <2>1, <2>2, <2>3 DEF InsertRow
  <2>6. \A x \in ModIds : prio[p][x] # 0 => prio[p][x] # n
    BY <2>1 DEF InsertRow, RowIsNew
  <2>7. PrioritiesUnique'
    BY <2>1, <2>2, <2>3, <2>6
  <2>8. AtMostOneActive'
    BY <2>1 DEF InsertRow
  <2>9. QED
    BY <2>4, <2>5, <2>7, <2>8
<1>8. CASE \E p, order, on : order \in Orders /\ ReplaceRows(p, order, on)
  <2>1. PICK p, order, on : order \in Orders /\ ReplaceRows(p, order, on)
    BY <1>8
  <2>2. /\ DOMAIN order \subseteq ModIds
        /\ \A m \in DOMAIN order : order[m] \in Nat \ {0}
    BY <2>1 DEF Orders
  <2>3. DOMAIN order # {} => p \in profiles /\ DOMAIN order \subseteq mods
    BY <2>1 DEF ReplaceRows, KeysExist
  <2>4. \A q \in ProfileIds, m \in ModIds :
          prio'[q][m] = IF q # p THEN prio[q][m]
                        ELSE IF m \in DOMAIN order THEN order[m] ELSE 0
    BY <2>1 DEF ReplaceRows
  <2>5. \A q \in ProfileIds :
          enabled'[q] = IF q = p THEN on \cap DOMAIN order ELSE enabled[q]
    BY <2>1 DEF ReplaceRows
  <2>6. [m \in ModIds |-> IF m \in DOMAIN order THEN order[m] ELSE 0] \in [ModIds -> Nat]
    BY <2>2
  <2>7. TablesTypeOK'
    BY <2>1, <2>2, <2>6 DEF ReplaceRows
  <2>8. RowsHaveOwners'
    BY <2>1, <2>2, <2>3, <2>4, <2>5 DEF ReplaceRows
  <2>9. \A x, y \in DOMAIN order : order[x] = order[y] => x = y
    BY <2>1 DEF ReplaceRows, OneToOne
  <2>10. PrioritiesUnique'
    BY <2>4, <2>9
  <2>11. AtMostOneActive'
    BY <2>1 DEF ReplaceRows
  <2>12. QED
    BY <2>7, <2>8, <2>10, <2>11
<1>9. CASE \E p \in ProfileIds, m \in ModIds, b \in BOOLEAN : SetEnabledFlag(p, m, b)
  BY <1>9 DEF SetEnabledFlag
<1>10. QED
  BY <1>1, <1>2, <1>3, <1>4, <1>5, <1>6, <1>7, <1>8, <1>9 DEF Statement

\* What a step of thread c may do to the operations under way.
CallStep(c) == UNCHANGED call \/ \E k \in GoodCalls : Continue(c, k)

LEMMA CallStepKeepsCalls ==
  ASSUME call \in [Conns -> GoodCalls], NEW c \in Conns, CallStep(c)
  PROVE  call' \in [Conns -> GoodCalls]
BY DEF CallStep, Continue

\* An operation that is over, or starts at a statement with no locals to check.
LEMMA IdleIsGood == Idle \in GoodCalls
<1>1. << >> \in Orders
  <2>1. << >> \in [{} -> 1 .. Cardinality(ModIds)]
    OBVIOUS
  <2>2. QED
    BY <2>1 DEF Orders
<1>2. QED
  BY <1>1 DEF GoodCalls, Calls, Idle, Statements

\* The orders of the mods in S are among the lists an operation may hold.
LEMMA OrdersOfMods ==
  ASSUME NEW S \in SUBSET ModIds
  PROVE  /\ IsFiniteSet(S)
         /\ OrderOf(S) \subseteq Orders
<1>1. IsFiniteSet(S) /\ Cardinality(S) <= Cardinality(ModIds)
  BY IdsAssumption, FS_Subset
<1>2. Cardinality(S) \in Nat /\ Cardinality(ModIds) \in Nat
  BY <1>1, IdsAssumption, FS_CardinalityType
<1>3. 1 .. Cardinality(S) \subseteq 1 .. Cardinality(ModIds)
  BY <1>1, <1>2
<1>4. QED
  BY <1>1, <1>3 DEF OrderOf, Orders

\* list_profile_mods returns an order of the mods in the profile.
LEMMA ListOfIsOrder ==
  ASSUME TablesInv, NEW p \in ProfileIds
  PROVE  ListOf(p) \in OrderOf(ModsIn(p)) /\ ModsIn(p) \in SUBSET ModIds
<1> DEFINE key == [m \in ModsIn(p) |-> prio[p][m]]
<1>1. ModsIn(p) \in SUBSET ModIds
  BY DEF ModsIn
<1>2. key \in [ModsIn(p) -> Int]
  BY <1>1 DEF TablesInv, TablesTypeOK
<1>3. OneToOne(key)
  BY DEF OneToOne, TablesInv, PrioritiesUnique
<1>4. ListOf(p) = Ranked(key)
  BY DEF ListOf
<1> HIDE DEF key
<1>5. QED
  BY <1>1, <1>2, <1>3, <1>4, OrdersOfMods, RankedIsOrder

\* The loop of clone_profile goes on with a mod of the list, or is over.
LEMMA AfterAddIsGood ==
  ASSUME NEW k \in Calls
  PROVE  AfterAdd(k) \in GoodCalls
<1>1. CASE DOMAIN k.list = {}
  BY <1>1, IdleIsGood DEF AfterAdd
<1>2. CASE DOMAIN k.list # {}
  <2>1. PICK S \in SUBSET ModIds : k.list \in [S -> 1 .. Cardinality(ModIds)]
    BY DEF Calls, Orders
  <2>2. IsFiniteSet(S)
    BY OrdersOfMods
  <2>3. k.list \in [S -> Int]
    BY <2>1, IdsAssumption, FS_CardinalityType
  <2>4. HeadOf(k.list) \in S
    BY <1>2, <2>1, <2>2, <2>3, HeadInOrder
  <2>5. RestOf(k.list) \in [S \ {HeadOf(k.list)} -> 1 .. Cardinality(ModIds)]
    BY <2>1 DEF RestOf
  <2>6. RestOf(k.list) \in Orders
    BY <2>5 DEF Orders
  <2>7. AfterAdd(k) = [k EXCEPT !.at = "count", !.mid = HeadOf(k.list),
                                !.list = RestOf(k.list), !.next = 0]
    BY <1>2 DEF AfterAdd
  <2>8. AfterAdd(k) \in Calls
    <3>1. \A h \in ModIds, r \in Orders :
            [k EXCEPT !.at = "count", !.mid = h, !.list = r, !.next = 0] \in Calls
      BY DEF Calls, Statements
    <3>2. HeadOf(k.list) \in ModIds
      BY <2>4
    <3>3. QED
      BY <2>6, <2>7, <3>1, <3>2, Zenon
  <2>9. AfterAdd(k).at = "count"
    BY <2>7 DEF Calls
  <2>10. QED
    BY <2>8, <2>9 DEF GoodCalls
<1>3. QED
  BY <1>1, <1>2

\* remove, move and reorder are about to write an order of mods that exist.
LEMMA PlanIsGood ==
  ASSUME TablesInv, NEW p \in ProfileIds, NEW m \in ModIds \cup {None},
         NEW S \in SUBSET ModIds, NEW order \in OrderOf(S)
  PROVE  Plan(p, m, order) \in GoodCalls
<1>1. order \in Orders /\ DOMAIN order = S
  BY OrdersOfMods DEF OrderOf
<1>2. enabled[p] \cap DOMAIN order \in SUBSET ModIds
  BY <1>1
<1>3. Plan(p, m, order).list = order /\ Plan(p, m, order).at = "replace"
  BY DEF Plan, Idle
<1>4. Plan(p, m, order) \in Calls
  BY <1>1, <1>2, IdleIsGood DEF Plan, GoodCalls, Calls, Statements
<1>5. QED
  BY <1>1, <1>3, <1>4 DEF GoodCalls

\* Each step of mod_list/mod.rs, data/mods.rs and the install.
LEMMA ModListSteps ==
  ASSUME IInv, NEW c \in Conns, ModListStep(c)
  PROVE  Statement /\ CallStep(c)
<1> DEFINE k == call[c]
<1>k. k \in GoodCalls /\ k \in Calls
  BY DEF IInv, GoodCalls
<1>idle. Idle \in GoodCalls
  BY IdleIsGood
<1>t. TablesInv
  BY DEF IInv
<1> HIDE DEF k
<1>1. CASE AddMod(c)
  <2>1. PICK p \in spent.profiles, m \in spent.mods :
          Begin(c, [Idle EXCEPT !.at = "count", !.pid = p, !.mid = m])
    BY <1>1 DEF AddMod
  <2>2. p \in ProfileIds /\ m \in ModIds
    BY <1>t DEF TablesInv, TablesTypeOK
  <2>3. [Idle EXCEPT !.at = "count", !.pid = p, !.mid = m] \in GoodCalls
    BY <1>idle, <2>2 DEF Idle, GoodCalls, Calls, Statements
  <2>4. QED
    BY <1>1, <2>1, <2>3 DEF AddMod, Begin, CallStep, Statement
<1>2. CASE CountRow(c)
  <2>1. [k EXCEPT !.at = "max"] \in GoodCalls
    BY <1>k DEF GoodCalls, Calls, Statements
  <2>2. QED
    BY <1>2, <1>k, <2>1, AfterAddIsGood DEF CountRow, CallStep, Statement, k
<1>3. CASE ReadMaxPriority(c)
  <2>1. PICK n \in 1 .. MaxPriority :
          Continue(c, [k EXCEPT !.at = "insert", !.next = n])
    BY <1>3 DEF ReadMaxPriority, k
  <2>2. n \in Nat /\ n # 0
    BY MaxPriorityAssumption
  <2>3. [k EXCEPT !.at = "insert", !.next = n] \in GoodCalls
    BY <1>k, <2>2 DEF GoodCalls, Calls, Statements
  <2>4. QED
    BY <1>3, <2>1, <2>3 DEF ReadMaxPriority, CallStep, Statement
<1>4. CASE InsertProfileMod(c)
  <2>1. k.at = "insert" /\ InsertRow(k.pid, k.mid, k.next) /\ Continue(c, AfterAdd(k))
    BY <1>4 DEF InsertProfileMod, k
  <2>2. k.next \in Nat \ {0}
    BY <1>k, <2>1 DEF GoodCalls, Calls
  <2>3. k.mid \in ModIds
    BY <2>1, <1>t DEF InsertRow, KeysExist, TablesInv, TablesTypeOK
  <2>4. Statement
    BY <2>1, <2>2, <2>3 DEF Statement
  <2>5. QED
    BY <1>k, <2>1, <2>4, AfterAddIsGood DEF CallStep
<1>5. CASE InsertRefused(c)
  BY <1>5, <1>idle DEF InsertRefused, Return, CallStep, Statement
<1>6. CASE RemoveMod(c)
  <2>1. PICK p \in profiles : \E m \in ModsIn(p) :
               Begin(c, Plan(p, m, Without(ListOf(p), m)))
    BY <1>6 DEF RemoveMod
  <2>2. PICK m \in ModsIn(p) : Begin(c, Plan(p, m, Without(ListOf(p), m)))
    BY <2>1
  <2>3. p \in ProfileIds
    BY <1>t DEF TablesInv, TablesTypeOK
  <2>4. ListOf(p) \in OrderOf(ModsIn(p)) /\ ModsIn(p) \in SUBSET ModIds
    BY <1>t, <2>3, ListOfIsOrder
  <2>5. Without(ListOf(p), m) \in OrderOf(ModsIn(p) \ {m})
    BY <2>4, OrdersOfMods, WithoutIsOrder
  <2>6. Plan(p, m, Without(ListOf(p), m)) \in GoodCalls
    BY <1>t, <2>3, <2>4, <2>5, PlanIsGood
  <2>7. QED
    BY <1>6, <2>2, <2>6 DEF RemoveMod, Begin, CallStep, Statement
<1>7. CASE MoveMod(c)
  <2>1. PICK p \in profiles :
          \E m \in ModsIn(p), n \in 0 .. Cardinality(ModIds) + 1 :
            Begin(c, Plan(p, m, Moved(ListOf(p), m,
                                      Clamped(n, Cardinality(DOMAIN ListOf(p))))))
    BY <1>7 DEF MoveMod
  <2>2. PICK m \in ModsIn(p), n \in 0 .. Cardinality(ModIds) + 1 :
            Begin(c, Plan(p, m, Moved(ListOf(p), m,
                                      Clamped(n, Cardinality(DOMAIN ListOf(p))))))
    BY <2>1
  <2> DEFINE target == Clamped(n, Cardinality(DOMAIN ListOf(p)))
  <2>3. p \in ProfileIds
    BY <1>t DEF TablesInv, TablesTypeOK
  <2>4. ListOf(p) \in OrderOf(ModsIn(p)) /\ ModsIn(p) \in SUBSET ModIds
    BY <1>t, <2>3, ListOfIsOrder
  <2>5. IsFiniteSet(ModsIn(p))
    BY <2>4, OrdersOfMods
  <2>6. target \in Int
    BY <2>4, <2>5, FS_CardinalityType DEF Clamped, OrderOf
  <2> HIDE DEF target
  <2>7. Moved(ListOf(p), m, target) \in OrderOf(ModsIn(p))
    BY <2>4, <2>5, <2>6, MovedIsOrder
  <2>8. Plan(p, m, Moved(ListOf(p), m, target)) \in GoodCalls
    BY <1>t, <2>3, <2>4, <2>7, PlanIsGood
  <2>9. QED
    BY <1>7, <2>2, <2>8 DEF MoveMod, Begin, CallStep, Statement, target
<1>8. CASE ReorderMods(c)
  <2>1. PICK p \in profiles :
          \E ids \in [1 .. Cardinality(ModsIn(p)) -> ModIds] :
            ListsExactly(ids, ModsIn(p)) /\ Begin(c, Plan(p, None, IndexOf(ids)))
    BY <1>8 DEF ReorderMods
  <2>2. PICK ids \in [1 .. Cardinality(ModsIn(p)) -> ModIds] :
            ListsExactly(ids, ModsIn(p)) /\ Begin(c, Plan(p, None, IndexOf(ids)))
    BY <2>1
  <2>3. p \in ProfileIds
    BY <1>t DEF TablesInv, TablesTypeOK
  <2>4. ModsIn(p) \in SUBSET ModIds
    BY DEF ModsIn
  <2>5. IndexOf(ids) \in OrderOf(ModsIn(p))
    BY <2>2, <2>4, OrdersOfMods, IndexOfIsOrder
  <2>6. Plan(p, None, IndexOf(ids)) \in GoodCalls
    BY <1>t, <2>3, <2>4, <2>5, PlanIsGood
  <2>7. QED
    BY <1>8, <2>2, <2>6 DEF ReorderMods, Begin, CallStep, Statement
<1>9. CASE ReplaceAll(c)
  <2>1. k.list \in Orders /\ ReplaceRows(k.pid, k.list, k.on)
    BY <1>9, <1>k DEF ReplaceAll, Calls, k
  <2>2. QED
    BY <1>9, <1>idle, <2>1 DEF ReplaceAll, Return, CallStep, Statement
<1>10. CASE ReplaceRefused(c)
  BY <1>10, <1>idle DEF ReplaceRefused, Return, CallStep, Statement
<1>11. CASE SetModEnabled(c)
  <2>1. PICK p \in profiles : \E m \in ModsIn(p), b \in BOOLEAN : SetEnabledFlag(p, m, b)
    BY <1>11 DEF SetModEnabled
  <2>2. p \in ProfileIds /\ ModsIn(p) \subseteq ModIds
    BY <1>t DEF TablesInv, TablesTypeOK, ModsIn
  <2>3. QED
    BY <1>11, <2>1, <2>2 DEF SetModEnabled, CallStep, Statement
<1>12. CASE DeleteMod(c)
  BY <1>12 DEF DeleteMod, CallStep, Statement
<1>13. CASE InstallMod(c)
  <2>1. \A m \in mods : [Idle EXCEPT !.at = "readActive", !.mid = m] \in GoodCalls
    BY <1>idle, <1>t
       DEF Idle, GoodCalls, Calls, Statements, TablesInv, TablesTypeOK
  <2>2. \A s \in Slugs : [Idle EXCEPT !.at = "insertMod", !.key = s] \in GoodCalls
    BY <1>idle DEF Idle, GoodCalls, Calls, Statements
  <2>3. QED
    BY <1>13, <2>1, <2>2 DEF InstallMod, Begin, CallStep, Statement
<1>14. CASE InsertMod(c)
  <2>1. \A m \in ModIds : [Idle EXCEPT !.at = "readActive", !.mid = m] \in GoodCalls
    BY <1>idle DEF Idle, GoodCalls, Calls, Statements
  <2>2. QED
    BY <1>14, <2>1 DEF InsertMod, CallStep, Statement
<1>15. CASE InsertModRefused(c)
  BY <1>15, <1>idle DEF InsertModRefused, Return, CallStep, Statement
<1>16. CASE ReadActive(c)
  <2>1. \A p \in active : [k EXCEPT !.at = "count", !.pid = p] \in GoodCalls
    BY <1>k, <1>t DEF GoodCalls, Calls, Statements, TablesInv, TablesTypeOK
  <2>2. QED
    BY <1>16, <1>idle, <2>1 DEF ReadActive, Return, CallStep, Statement, k
<1>17. CASE Abort(c)
  BY <1>17, <1>idle DEF Abort, Return, CallStep, Statement
<1>18. QED
  BY <1>1, <1>2, <1>3, <1>4, <1>5, <1>6, <1>7, <1>8, <1>9, <1>10, <1>11,
     <1>12, <1>13, <1>14, <1>15, <1>16, <1>17 DEF ModListStep

\* Each step of data/profiles.rs, profile/mod.rs and service/profile.rs.
LEMMA ProfileSteps ==
  ASSUME IInv, NEW c \in Conns, ProfileStep(c)
  PROVE  Statement /\ CallStep(c)
<1> DEFINE k == call[c]
<1>k. k \in GoodCalls /\ k \in Calls
  BY DEF IInv, GoodCalls
<1>idle. Idle \in GoodCalls
  BY IdleIsGood
<1>t. TablesInv /\ profiles \subseteq ProfileIds
  BY DEF IInv, TablesInv, TablesTypeOK
<1> HIDE DEF k
<1>1. CASE CreateProfile(c)
  BY <1>1 DEF CreateProfile, CallStep, Statement
<1>2. CASE SetActive(c)
  <2>1. \A p \in profiles : [Idle EXCEPT !.at = "setActive", !.pid = p] \in GoodCalls
    BY <1>idle, <1>t DEF Idle, GoodCalls, Calls, Statements
  <2>2. QED
    BY <1>2, <2>1 DEF SetActive, Begin, CallStep, Statement
<1>3. CASE CommitActive(c)
  BY <1>3, <1>idle DEF CommitActive, Return, CallStep, Statement
<1>4. CASE DeleteRow(c)
  BY <1>4 DEF DeleteRow, CallStep, Statement
<1>5. CASE DeleteProfile(c)
  <2>1. \A p \in profiles : [Idle EXCEPT !.at = "delete", !.pid = p] \in GoodCalls
    BY <1>idle, <1>t DEF Idle, GoodCalls, Calls, Statements
  <2>2. QED
    BY <1>5, <2>1 DEF DeleteProfile, Begin, CallStep, Statement
<1>6. CASE CommitDelete(c)
  BY <1>6, <1>idle DEF CommitDelete, Return, CallStep, Statement
<1>7. CASE CloneProfile(c)
  <2>1. \A s \in profiles, n \in Names :
          [Idle EXCEPT !.at = "cloneInsert", !.src = s, !.key = n] \in GoodCalls
    BY <1>idle, <1>t DEF Idle, GoodCalls, Calls, Statements
  <2>2. QED
    BY <1>7, <2>1 DEF CloneProfile, Begin, CallStep, Statement
<1>8. CASE InsertClone(c)
  <2>1. k.at = "cloneInsert" /\ k.src \in ProfileIds
    BY <1>8, <1>k DEF InsertClone, GoodCalls, k
  <2>2. \A p \in ProfileIds : [k EXCEPT !.at = "cloneList", !.pid = p] \in GoodCalls
    BY <1>k, <2>1 DEF GoodCalls, Calls, Statements
  <2>3. QED
    BY <1>8, <2>2 DEF InsertClone, CallStep, Statement, k
<1>9. CASE ListSource(c)
  <2>1. k.src \in ProfileIds
    BY <1>9, <1>k DEF ListSource, GoodCalls, k
  <2>2. ListOf(k.src) \in OrderOf(ModsIn(k.src)) /\ ModsIn(k.src) \in SUBSET ModIds
    BY <1>t, <2>1, ListOfIsOrder
  <2>3. ListOf(k.src) \in Orders
    BY <2>2, OrdersOfMods
  <2>4. [k EXCEPT !.list = ListOf(k.src)] \in Calls
    BY <1>k, <2>3 DEF Calls
  <2>5. QED
    BY <1>9, <2>4, AfterAddIsGood DEF ListSource, CallStep, Statement, k
<1>10. CASE EnsureDefault(c)
  <2>1. [Idle EXCEPT !.at = "ensureInsert", !.key = DefaultName] \in GoodCalls
    BY <1>idle, DefaultAssumption DEF Idle, GoodCalls, Calls, Statements
  <2>2. QED
    BY <1>10, <2>1 DEF EnsureDefault, Begin, CallStep, Statement
<1>11. CASE InsertDefault(c)
  <2>1. \A p \in ProfileIds : [Idle EXCEPT !.at = "activate", !.pid = p] \in GoodCalls
    BY <1>idle DEF Idle, GoodCalls, Calls, Statements
  <2>2. QED
    BY <1>11, <2>1 DEF InsertDefault, CallStep, Statement
<1>12. CASE InsertNameRefused(c)
  BY <1>12, <1>idle DEF InsertNameRefused, Return, CallStep, Statement
<1>13. CASE ActivateDefault(c)
  <2>1. [k EXCEPT !.at = "setActive"] \in GoodCalls
    BY <1>k DEF GoodCalls, Calls, Statements
  <2>2. QED
    BY <1>13, <1>idle, <2>1 DEF ActivateDefault, CallStep, Statement, k
<1>14. QED
  BY <1>1, <1>2, <1>3, <1>4, <1>5, <1>6, <1>7, <1>8, <1>9, <1>10, <1>11,
     <1>12, <1>13 DEF ProfileStep

\* The invariant holds before any operation and every step keeps it.
THEOREM InvHolds == Spec => []IInv
<1>1. Init => IInv
  <2>1. EmptyDb => TablesInv
    BY DEF EmptyDb, TablesInv, TablesTypeOK, RowsHaveOwners, PrioritiesUnique,
           AtMostOneActive, ModsIn
  <2>2. QED
    BY <2>1, IdleIsGood DEF Init, IInv
<1>2. IInv /\ [Next]_vars => IInv'
  <2> SUFFICES ASSUME IInv, [Next]_vars
               PROVE  IInv'
    OBVIOUS
  <2>1. CASE Next
    <3>1. PICK c \in Conns : ModListStep(c) \/ ProfileStep(c)
      BY <2>1 DEF Next
    <3>2. Statement /\ CallStep(c)
      BY <3>1, ModListSteps, ProfileSteps
    <3>3. QED
      BY <3>2, StatementKeepsTables, CallStepKeepsCalls DEF IInv
  <2>2. CASE UNCHANGED vars
    <3>1. Statement /\ UNCHANGED call
      BY <2>2 DEF vars, Statement
    <3>2. QED
      BY <3>1, StatementKeepsTables DEF IInv
  <2>3. QED
    BY <2>1, <2>2
<1>3. QED
  BY <1>1, <1>2, PTL DEF Spec

\* Whatever any number of connections interleave, the state is well typed, rows
\* name existing profiles and mods, priorities are unique per profile and one
\* profile at most is active.
THEOREM TablesCorrect == Spec => []TablesConsistent
<1>1. IInv => TypeOK
  BY DEF IInv, TablesInv, TypeOK, CallTypeOK, GoodCalls
<1>2. IInv => RowsHaveOwners /\ PrioritiesUnique /\ AtMostOneActive
  BY DEF IInv, TablesInv
<1>3. QED
  BY <1>1, <1>2, InvHolds, PTL DEF TablesConsistent

\* remove, move and reorder only ever write orders numbered 1, 2, ... without a
\* gap, so that their transaction cannot meet UNIQUE(profile_id, priority).
THEOREM PlansCorrect == Spec => []PlansAreDense
<1>1. IInv => PlansAreDense
  <2> SUFFICES ASSUME IInv, NEW c \in Conns, call[c].at = "replace"
               PROVE  LET order == call[c].list IN
                        {order[m] : m \in DOMAIN order} = 1 .. Cardinality(DOMAIN order)
    BY DEF PlansAreDense
  <2> DEFINE order == call[c].list
  <2>1. order \in Orders /\ order \in OrderOf(DOMAIN order)
    BY DEF IInv, GoodCalls, Calls
  <2>2. DOMAIN order \in SUBSET ModIds
    BY <2>1 DEF Orders
  <2> HIDE DEF order
  <2>3. {order[m] : m \in DOMAIN order} = 1 .. Cardinality(DOMAIN order)
    BY <2>1, <2>2, OrdersOfMods, OneToOneIsDense DEF OrderOf
  <2>4. QED
    BY <2>3 DEF order
<1>2. QED
  BY <1>1, InvHolds, PTL

-----------------------------------------------------------------------------
\* An order without gaps is its own ranking: copying it row by row, numbered
\* from 1, changes nothing.
LEMMA OrderIsItsRanking ==
  ASSUME NEW S, IsFiniteSet(S), NEW f \in OrderOf(S)
  PROVE  Ranked(f) = f
<1>. DEFINE Upto(n) == {m \in S : f[m] <= n}
<1>1. f \in [S -> 1 .. Cardinality(S)] /\ OneToOne(f) /\ Cardinality(S) \in Nat
  BY FS_CardinalityType DEF OrderOf
<1>2. \A n \in 1 .. Cardinality(S) : \E m \in S : f[m] = n
  BY <1>1, OneToOneIsDense
<1>3. ASSUME NEW n \in 1 .. Cardinality(S)
      PROVE  Cardinality(Upto(n)) = n
  <2>. DEFINE g == [m \in Upto(n) |-> f[m]]
  <2>1. n \in Nat /\ IsFiniteSet(1 .. n) /\ Cardinality(1 .. n) = n
    BY <1>1, FS_Interval
  <2>2. g \in [Upto(n) -> 1 .. n]
    BY <1>1, <2>1
  <2>3. \A x, y \in Upto(n) : g[x] = g[y] => x = y
    BY <1>1 DEF OneToOne
  <2>4. \A k \in 1 .. n : \E m \in Upto(n) : g[m] = k
    <3>1. ASSUME NEW k \in 1 .. n PROVE \E m \in Upto(n) : g[m] = k
      <4>1. k \in 1 .. Cardinality(S)
        BY <1>1
      <4>2. PICK m \in S : f[m] = k
        BY <1>2, <4>1
      <4>. QED
        BY <4>2
    <3>. QED
      BY <3>1
  <2>5. IsFiniteSet(Upto(n))
    BY FS_Subset, Upto(n) \in SUBSET S
  <2>. HIDE DEF g, Upto
  <2>6. g \in Bijection(Upto(n), 1 .. n)
    BY <2>2, <2>3, <2>4 DEF Bijection, Injection, Surjection, IsInjective
  <2>7. ExistsBijection(Upto(n), 1 .. n)
    BY <2>6 DEF ExistsBijection
  <2>. QED
    BY <2>1, <2>5, <2>7, FS_Bijection
<1>4. DOMAIN f = S
  BY <1>1
<1>5. \A m \in S : Ranked(f)[m] = Cardinality(Upto(f[m]))
  BY <1>4 DEF Ranked
<1>6. Ranked(f) \in [S -> 1 .. Cardinality(S)]
  <2>1. f \in [S -> Int]
    BY <1>1
  <2>. QED
    BY <2>1, RankedType
<1>. HIDE DEF Upto
<1>7. \A m \in S : Ranked(f)[m] = f[m]
  BY <1>1, <1>3, <1>5
<1>. QED
  BY <1>1, <1>6, <1>7

-----------------------------------------------------------------------------
\* One thread at a time: what it has read is still true when it writes.
OneThread == \A c, d \in Conns : c = d

\* Ids are never handed out twice.
SpentInv == profiles \subseteq spent.profiles

\* The list about to be written has every mod of the profile with its flag,
\* apart from the one to remove.
ReplacePlanned(k) ==
  k.at = "replace" =>
    /\ k.pid \in ProfileIds
    /\ DOMAIN k.list = ModsIn(k.pid) \ AskedToDrop(k)
    /\ k.on = enabled[k.pid] \cap DOMAIN k.list

\* How far the copy of an order has come: the mods before the next one are in
\* the new profile at their positions, those behind it are still in the list.
Copied(order, k) ==
  /\ k.pid \in ProfileIds /\ k.pid # k.src
  /\ k.mid \in DOMAIN order
  /\ ModsIn(k.pid) = {m \in DOMAIN order : order[m] < order[k.mid]}
  /\ \A m \in ModsIn(k.pid) : prio[k.pid][m] = order[m]
  /\ DOMAIN k.list = {m \in DOMAIN order : order[m] > order[k.mid]}
  /\ \A m \in DOMAIN k.list : k.list[m] = order[m]
  /\ k.at = "insert" => k.next = order[k.mid]

Copies(k) == k.src \in ProfileIds

ClonePlanned(k) ==
  /\ k.at = "readActive" => ~ Copies(k)
  /\ k.at = "cloneInsert" => k.src \in profiles
  /\ k.at = "cloneList" => k.pid \in ProfileIds /\ k.pid # k.src /\ ModsIn(k.pid) = {}
  /\ k.at \in {"count", "max", "insert"} /\ Copies(k) => Copied(ListOf(k.src), k)

PlannedInv == \A c \in Conns : ReplacePlanned(call[c]) /\ ClonePlanned(call[c])

SerialInv == SpentInv /\ PlannedInv

\* The ids of the profiles stay among those handed out.
LEMMA StatementKeepsSpent ==
  ASSUME TablesInv, SpentInv, Statement
  PROVE  SpentInv'
BY DEF Statement, SpentInv, TablesInv, TablesTypeOK, tables, InsertProfileRow, InsertModRow,
       SetSoleActive, DropProfile, DropMod, InsertRow, ReplaceRows, SetEnabledFlag

\* Statements that need nothing of what the thread has read.
LEMMA PlainIsPlanned ==
  ASSUME NEW k, k.at \notin {"replace", "cloneInsert", "cloneList"},
         k.at \in {"readActive", "count", "max", "insert"} => ~ Copies(k)
  PROVE  ReplacePlanned(k) /\ ClonePlanned(k) /\ ReplacePlanned(k)' /\ ClonePlanned(k)'
BY DEF ReplacePlanned, ClonePlanned, Copies

\* Nothing is planned between operations.
LEMMA IdleIsPlanned ==
  /\ ~ Copies(Idle)
  /\ ReplacePlanned(Idle) /\ ClonePlanned(Idle)
  /\ ReplacePlanned(Idle)' /\ ClonePlanned(Idle)'
<1>1. Idle.at = "idle" /\ Idle.src = None
  BY DEF Idle
<1>. QED
  BY <1>1, PlainIsPlanned, NoneAssumption DEF Copies

\* The only thread goes on.
LEMMA OnlyThread ==
  ASSUME OneThread, IInv, NEW c \in Conns, NEW k, Continue(c, k),
         ReplacePlanned(k)', ClonePlanned(k)'
  PROVE  PlannedInv'
<1>1. ASSUME NEW d \in Conns PROVE call'[d] = k
  BY DEF OneThread, IInv, Continue
<1>2. ASSUME NEW d \in Conns
      PROVE  ReplacePlanned(call[d])' /\ ClonePlanned(call[d])'
  BY <1>1, <1>2 DEF ReplacePlanned, ClonePlanned, Copies, Copied, AskedToDrop
<1>. QED
  BY <1>2 DEF PlannedInv

\* remove, move and reorder plan a list of the mods that are there.
LEMMA PlanIsPlanned ==
  ASSUME TablesInv, NEW p \in ProfileIds, NEW m, NEW order, NEW k, k = Plan(p, m, order),
         DOMAIN order = ModsIn(p) \ ({m} \ DOMAIN order), UNCHANGED tables
  PROVE  ReplacePlanned(k)' /\ ClonePlanned(k)'
<1>1. /\ k.at = "replace" /\ k.pid = p /\ k.mid = m /\ k.list = order
      /\ k.on = enabled[p] \cap DOMAIN order
  BY DEF Plan, Idle
<1>2. prio' = prio /\ enabled' = enabled
  BY DEF tables
<1>3. ReplacePlanned(k)'
  BY <1>1, <1>2 DEF ReplacePlanned, AskedToDrop, ModsIn
<1>4. ClonePlanned(k)'
  BY <1>1 DEF ClonePlanned
<1>. QED
  BY <1>3, <1>4

\* The three operations that read a list and write it whole.
LEMMA PlansArePlanned ==
  ASSUME OneThread, IInv, NEW c \in Conns, RemoveMod(c) \/ MoveMod(c) \/ ReorderMods(c)
  PROVE  PlannedInv'
<1>0. TablesInv /\ profiles \subseteq ProfileIds /\ UNCHANGED tables
  BY DEF IInv, TablesInv, TablesTypeOK, RemoveMod, MoveMod, ReorderMods
<1>o. ASSUME NEW p \in ProfileIds
      PROVE  /\ ListOf(p) \in OrderOf(ModsIn(p)) /\ DOMAIN ListOf(p) = ModsIn(p)
             /\ IsFiniteSet(ModsIn(p)) /\ ModsIn(p) \in SUBSET ModIds
  BY <1>0, ListOfIsOrder, OrdersOfMods DEF OrderOf
<1>1. CASE RemoveMod(c)
  <2>1. PICK p \in profiles : \E m \in ModsIn(p) :
          Continue(c, Plan(p, m, Without(ListOf(p), m)))
    BY <1>1 DEF RemoveMod, Begin
  <2>m. PICK m \in ModsIn(p) : Continue(c, Plan(p, m, Without(ListOf(p), m)))
    BY <2>1
  <2>. DEFINE order == Without(ListOf(p), m)
  <2>2. p \in ProfileIds
    BY <1>0
  <2>3. order \in OrderOf(ModsIn(p) \ {m})
    BY <1>o, <2>2, WithoutIsOrder
  <2>. HIDE DEF order
  <2>4. DOMAIN order = ModsIn(p) \ {m}
    BY <2>3 DEF OrderOf
  <2>5. DOMAIN order = ModsIn(p) \ ({m} \ DOMAIN order)
    BY <2>3, <2>4
  <2>7. PICK k : k = Plan(p, m, order) /\ Continue(c, k)
    BY <2>m DEF order
  <2>8. ReplacePlanned(k)' /\ ClonePlanned(k)'
    BY <1>0, <2>2, <2>5, <2>7, PlanIsPlanned
  <2>. QED
    BY <2>7, <2>8, OnlyThread
<1>2. CASE MoveMod(c)
  <2>1. PICK p \in profiles : \E m \in ModsIn(p), n \in 0 .. Cardinality(ModIds) + 1 :
          Continue(c, Plan(p, m, Moved(ListOf(p), m, Clamped(n, Cardinality(DOMAIN ListOf(p))))))
    BY <1>2 DEF MoveMod, Begin
  <2>2. p \in ProfileIds
    BY <1>0
  <2>t. Cardinality(DOMAIN ListOf(p)) \in Nat /\ Cardinality(ModIds) \in Nat
    BY <1>o, <2>2, FS_CardinalityType, IdsAssumption
  <2>m. PICK m \in ModsIn(p), target \in Int :
          Continue(c, Plan(p, m, Moved(ListOf(p), m, target)))
    BY <2>1, <2>t DEF Clamped
  <2>. DEFINE order == Moved(ListOf(p), m, target)
  <2>3. order \in OrderOf(ModsIn(p))
    BY <1>o, <2>2, MovedIsOrder
  <2>. HIDE DEF order
  <2>4. DOMAIN order = ModsIn(p)
    BY <2>3 DEF OrderOf
  <2>5. DOMAIN order = ModsIn(p) \ ({m} \ DOMAIN order)
    BY <2>3, <2>4
  <2>7. PICK k : k = Plan(p, m, order) /\ Continue(c, k)
    BY <2>m DEF order
  <2>8. ReplacePlanned(k)' /\ ClonePlanned(k)'
    BY <1>0, <2>2, <2>5, <2>7, PlanIsPlanned
  <2>. QED
    BY <2>7, <2>8, OnlyThread
<1>3. CASE ReorderMods(c)
  <2>1. PICK p \in profiles : \E ids \in [1 .. Cardinality(ModsIn(p)) -> ModIds] :
          ListsExactly(ids, ModsIn(p)) /\ Continue(c, Plan(p, None, IndexOf(ids)))
    BY <1>3 DEF ReorderMods, Begin
  <2>m. PICK ids \in [1 .. Cardinality(ModsIn(p)) -> ModIds] :
          ListsExactly(ids, ModsIn(p)) /\ Continue(c, Plan(p, None, IndexOf(ids)))
    BY <2>1
  <2>. DEFINE order == IndexOf(ids)
  <2>2. p \in ProfileIds
    BY <1>0
  <2>3. order \in OrderOf(ModsIn(p))
    BY <1>o, <2>m, <2>2, IndexOfIsOrder
  <2>. HIDE DEF order
  <2>4. DOMAIN order = ModsIn(p)
    BY <2>3 DEF OrderOf
  <2>5. None \notin ModsIn(p)
    BY <1>o, <2>2, NoneAssumption
  <2>6. DOMAIN order = ModsIn(p) \ ({None} \ DOMAIN order)
    BY <2>3, <2>4, <2>5
  <2>7. PICK k : k = Plan(p, None, order) /\ Continue(c, k)
    BY <2>m DEF order
  <2>8. ReplacePlanned(k)' /\ ClonePlanned(k)'
    BY <1>0, <2>2, <2>6, <2>7, PlanIsPlanned
  <2>. QED
    BY <2>7, <2>8, OnlyThread
<1>. QED
  BY <1>1, <1>2, <1>3

-----------------------------------------------------------------------------
\* The order of a profile depends on its priorities alone.
LEMMA ListStays ==
  ASSUME NEW p \in ProfileIds, prio'[p] = prio[p]
  PROVE  ListOf(p)' = ListOf(p) /\ ModsIn(p)' = ModsIn(p)
<1>1. ModsIn(p)' = ModsIn(p)
  BY DEF ModsIn
<1>. QED
  BY <1>1 DEF ListOf, Ranked

\* A list: every mod its own position, every position its mod.
LEMMA ListFacts ==
  ASSUME TablesInv, NEW p \in ProfileIds, NEW L, L = ListOf(p)
  PROVE  /\ L \in OrderOf(ModsIn(p)) /\ DOMAIN L = ModsIn(p)
         /\ ModsIn(p) \in SUBSET ModIds /\ IsFiniteSet(ModsIn(p))
         /\ \A m \in DOMAIN L : L[m] \in Nat /\ L[m] >= 1
         /\ \A x, y \in DOMAIN L : L[x] = L[y] => x = y
         /\ \A m \in DOMAIN L, n \in Nat : 1 <= n /\ n < L[m] => \E x \in DOMAIN L : L[x] = n
<1>1. L \in OrderOf(ModsIn(p)) /\ ModsIn(p) \in SUBSET ModIds
  BY ListOfIsOrder
<1>2. IsFiniteSet(ModsIn(p)) /\ Cardinality(ModsIn(p)) \in Nat
  BY <1>1, OrdersOfMods, FS_CardinalityType
<1>3. L \in [ModsIn(p) -> 1 .. Cardinality(ModsIn(p))] /\ OneToOne(L)
  BY <1>1 DEF OrderOf
<1>4. {L[m] : m \in ModsIn(p)} = 1 .. Cardinality(ModsIn(p))
  BY <1>2, <1>3, OneToOneIsDense
<1>5. DOMAIN L = ModsIn(p)
  BY <1>3
<1>6. \A m \in DOMAIN L : L[m] \in 1 .. Cardinality(ModsIn(p))
  BY <1>3
<1>7. ASSUME NEW m \in DOMAIN L, NEW n \in Nat, 1 <= n, n < L[m]
      PROVE  \E x \in DOMAIN L : L[x] = n
  <2>1. n \in 1 .. Cardinality(ModsIn(p))
    BY <1>2, <1>6, <1>7
  <2>. QED
    BY <1>4, <1>5, <2>1
<1>. QED
  BY <1>1, <1>2, <1>3, <1>5, <1>6, <1>7 DEF OneToOne

\* The add that a clone has come to gives the row the position of its mod.
LEMMA NextIsPosition ==
  ASSUME TablesInv, NEW k \in Calls, Copies(k), Copied(ListOf(k.src), k),
         NEW n \in Nat, n >= 1, IsNextPriority(k.pid, n)
  PROVE  n = ListOf(k.src)[k.mid]
<1>1. PICK L : L = ListOf(k.src)
  OBVIOUS
<1>2. /\ \A m \in DOMAIN L : L[m] \in Nat /\ L[m] >= 1
      /\ \A m \in DOMAIN L, i \in Nat : 1 <= i /\ i < L[m] => \E x \in DOMAIN L : L[x] = i
  BY <1>1, ListFacts DEF Copies
<1>3. /\ k.mid \in DOMAIN L
      /\ ModsIn(k.pid) = {m \in DOMAIN L : L[m] < L[k.mid]}
      /\ \A m \in ModsIn(k.pid) : prio[k.pid][m] = L[m]
  BY <1>1 DEF Copied
<1>4. /\ \A m \in ModsIn(k.pid) : L[m] < n
      /\ n = 1 \/ \E m \in ModsIn(k.pid) : L[m] = n - 1
  BY <1>3 DEF IsNextPriority
<1>5. ~ (L[k.mid] < n)
  <2>1. SUFFICES ASSUME L[k.mid] < n PROVE FALSE
    OBVIOUS
  <2>2. PICK m \in ModsIn(k.pid) : L[m] = n - 1
    BY <1>2, <1>3, <1>4, <2>1
  <2>3. L[m] < L[k.mid] /\ m \in DOMAIN L
    BY <1>3, <2>2
  <2>. QED
    BY <1>2, <1>3, <2>1, <2>2, <2>3
<1>6. ~ (n < L[k.mid])
  <2>1. SUFFICES ASSUME n < L[k.mid] PROVE FALSE
    OBVIOUS
  <2>2. PICK x \in DOMAIN L : L[x] = n
    BY <1>2, <1>3, <2>1
  <2>3. x \in ModsIn(k.pid)
    BY <1>3, <2>1, <2>2
  <2>. QED
    BY <1>2, <1>4, <2>2, <2>3
<1>. QED
  BY <1>1, <1>2, <1>3, <1>5, <1>6

-----------------------------------------------------------------------------
\* An add outside a clone stays outside a clone.
LEMMA AddStaysPlain ==
  ASSUME NEW k \in Calls, ~ Copies(k), NEW r, r = AfterAdd(k)
  PROVE  ~ Copies(r) /\ r.at \in {"idle", "count"}
<1>1. CASE DOMAIN k.list = {}
  <2>1. r = Idle
    BY <1>1 DEF AfterAdd
  <2>. QED
    BY <2>1, IdleIsPlanned DEF Idle
<1>2. CASE DOMAIN k.list # {}
  <2>1. r = [k EXCEPT !.at = "count", !.mid = HeadOf(k.list),
                      !.list = RestOf(k.list), !.next = 0]
    BY <1>2 DEF AfterAdd
  <2>2. r.at = "count" /\ r.src = k.src
    BY <2>1 DEF Calls
  <2>. QED
    BY <2>2 DEF Copies
<1>. QED
  BY <1>1, <1>2

\* When the rows so far are those of the mods in `done`, at their positions,
\* and the list holds the others, the next add of the clone is well placed.
LEMMA CopyGoesOn ==
  ASSUME NEW k \in Calls, Copies(k), k.pid \in ProfileIds, k.pid # k.src,
         NEW L, L = ListOf(k.src)', NEW S, S \in SUBSET ModIds, L \in [S -> Nat],
         \A x, y \in S : L[x] = L[y] => x = y,
         NEW done, done \in SUBSET S, ModsIn(k.pid)' = done,
         \A m \in done : prio'[k.pid][m] = L[m],
         DOMAIN k.list = S \ done, \A m \in DOMAIN k.list : k.list[m] = L[m],
         \A x \in done, y \in DOMAIN k.list : L[x] < L[y],
         NEW r, r = AfterAdd(k)
  PROVE  ReplacePlanned(r)' /\ ClonePlanned(r)'
<1>1. CASE DOMAIN k.list = {}
  <2>1. r = Idle
    BY <1>1 DEF AfterAdd
  <2>. QED
    BY <2>1, IdleIsPlanned
<1>2. CASE DOMAIN k.list # {}
  <2>1. r = [k EXCEPT !.at = "count", !.mid = HeadOf(k.list),
                      !.list = RestOf(k.list), !.next = 0]
    BY <1>2 DEF AfterAdd
  <2>2. /\ r.at = "count" /\ r.src = k.src /\ r.pid = k.pid
        /\ r.mid = HeadOf(k.list) /\ r.list = RestOf(k.list)
    BY <2>1 DEF Calls
  <2>3. PICK left : left = k.list
    OBVIOUS
  <2>4. left \in [DOMAIN left -> Nat]
    <3>1. PICK T \in SUBSET ModIds : left \in [T -> 1 .. Cardinality(ModIds)]
      BY <2>3 DEF Calls, Orders
    <3>2. \A m \in DOMAIN left : left[m] \in Nat
      BY <2>3
    <3>. QED
      BY <3>1, <3>2
  <2>5. /\ HeadOf(left) \in DOMAIN left
        /\ done = {m \in S : L[m] < L[HeadOf(left)]}
        /\ DOMAIN RestOf(left) = {m \in S : L[m] > L[HeadOf(left)]}
        /\ \A m \in DOMAIN RestOf(left) : RestOf(left)[m] = L[m]
    <3>1. /\ DOMAIN left = S \ done /\ DOMAIN left # {}
          /\ \A m \in DOMAIN left : left[m] = L[m]
          /\ \A x \in done, y \in DOMAIN left : L[x] < L[y]
      BY <1>2, <2>3
    <3>2. PICK h : h = HeadOf(left)
      OBVIOUS
    <3>3. h \in DOMAIN left /\ \A m \in DOMAIN left : left[h] <= left[m]
      <4>1. DOMAIN left \in SUBSET ModIds
        BY <3>1
      <4>2. IsFiniteSet(DOMAIN left)
        BY <4>1, FS_Subset, IdsAssumption
      <4>3. left \in [DOMAIN left -> Int]
        BY <2>4
      <4>. QED
        BY <3>1, <3>2, <4>2, <4>3, HeadInOrder
    <3>4. h \in S /\ L[h] \in Nat /\ \A m \in DOMAIN left : m # h => L[h] < L[m]
      BY <3>1, <3>3
    <3>5. RestOf(left) = [m \in DOMAIN left \ {h} |-> left[m]]
      BY <3>2 DEF RestOf
    <3>6. done = {m \in S : L[m] < L[h]}
      BY <3>1, <3>3, <3>4
    <3>7. DOMAIN left \ {h} = {m \in S : L[m] > L[h]}
      BY <3>1, <3>3, <3>4
    <3>8. /\ DOMAIN RestOf(left) = DOMAIN left \ {h}
          /\ \A m \in DOMAIN RestOf(left) : RestOf(left)[m] = L[m]
      BY <3>1, <3>5
    <3>. QED
      BY <3>2, <3>3, <3>6, <3>7, <3>8
  <2>6. PICK h, rest : h = HeadOf(left) /\ rest = RestOf(left)
    OBVIOUS
  <2>7. /\ r.mid = h /\ r.list = rest /\ h \in DOMAIN L /\ DOMAIN L = S
        /\ done = {m \in DOMAIN L : L[m] < L[h]}
        /\ DOMAIN rest = {m \in DOMAIN L : L[m] > L[h]}
        /\ \A m \in DOMAIN rest : rest[m] = L[m]
    BY <2>2, <2>3, <2>5, <2>6
  <2>8. ListOf(r.src)' = L /\ ModsIn(r.pid)' = done /\ \A m \in done : prio'[r.pid][m] = L[m]
    BY <2>2
  <2>9. Copied(L, r)'
    BY <2>2, <2>7, <2>8 DEF Copied
  <2>10. Copied(ListOf(r.src), r)'
    BY <2>8, <2>9 DEF Copied
  <2>. QED
    BY <2>2, <2>10 DEF ReplacePlanned, ClonePlanned
<1>. QED
  BY <1>1, <1>2

\* The row the clone inserts is the next of the list.
LEMMA RowIsCopied ==
  ASSUME TablesInv, NEW k \in Calls, Copies(k), k.at = "insert",
         Copied(ListOf(k.src), k), InsertRow(k.pid, k.mid, k.next),
         NEW L, L = ListOf(k.src)
  PROVE  /\ L = ListOf(k.src)'
         /\ ModsIn(k.pid)' = {m \in DOMAIN L : L[m] <= L[k.mid]}
         /\ \A m \in ModsIn(k.pid)' : prio'[k.pid][m] = L[m]
<1>1. k.pid \in ProfileIds /\ k.src \in ProfileIds /\ k.pid # k.src
  BY DEF Copied, Copies
<1>2. /\ \A q \in ProfileIds : q # k.pid => prio'[q] = prio[q]
      /\ \A m \in ModIds : prio'[k.pid][m] = IF m = k.mid THEN k.next ELSE prio[k.pid][m]
  BY <1>1 DEF InsertRow, TablesInv, TablesTypeOK
<1>3. L = ListOf(k.src)'
  BY <1>1, <1>2, ListStays
<1>4. /\ DOMAIN L \in SUBSET ModIds
      /\ \A m \in DOMAIN L : L[m] \in Nat /\ L[m] >= 1
      /\ \A x, y \in DOMAIN L : L[x] = L[y] => x = y
  BY <1>1, ListFacts
<1>5. /\ k.mid \in DOMAIN L /\ k.next = L[k.mid]
      /\ ModsIn(k.pid) = {m \in DOMAIN L : L[m] < L[k.mid]}
      /\ \A m \in ModsIn(k.pid) : prio[k.pid][m] = L[m]
  BY DEF Copied
<1>6. ModsIn(k.pid)' = ModsIn(k.pid) \cup {k.mid}
  BY <1>1, <1>2, <1>4, <1>5 DEF ModsIn
<1>7. ModsIn(k.pid)' = {m \in DOMAIN L : L[m] <= L[k.mid]}
  BY <1>4, <1>5, <1>6
<1>8. \A m \in ModsIn(k.pid)' : m \in ModIds
  BY <1>4, <1>7
<1>9. \A m \in ModsIn(k.pid)' : prio'[k.pid][m] = L[m]
  BY <1>2, <1>5, <1>6, <1>8
<1>. QED
  BY <1>3, <1>7, <1>9

\* InsertProfileMod, of any caller.
LEMMA AddKeepsPlan ==
  ASSUME OneThread, IInv, SerialInv, NEW c \in Conns, InsertProfileMod(c)
  PROVE  PlannedInv'
<1>1. PICK k : k = call[c]
  OBVIOUS
<1>2. /\ TablesInv /\ k \in Calls /\ k.at = "insert"
      /\ InsertRow(k.pid, k.mid, k.next) /\ Continue(c, AfterAdd(k))
  BY <1>1 DEF IInv, GoodCalls, InsertProfileMod
<1>3. PICK r : r = AfterAdd(k)
  OBVIOUS
<1>4. CASE ~ Copies(k)
  BY <1>2, <1>3, <1>4, AddStaysPlain, PlainIsPlanned, OnlyThread
<1>5. CASE Copies(k)
  <2>1. Copied(ListOf(k.src), k)
    BY <1>1, <1>2, <1>5 DEF SerialInv, PlannedInv, ClonePlanned
  <2>2. PICK L : L = ListOf(k.src)
    OBVIOUS
  <2>3. /\ L = ListOf(k.src)'
        /\ ModsIn(k.pid)' = {m \in DOMAIN L : L[m] <= L[k.mid]}
        /\ \A m \in ModsIn(k.pid)' : prio'[k.pid][m] = L[m]
    BY <1>2, <1>5, <2>1, <2>2, RowIsCopied
  <2>4. /\ DOMAIN L \in SUBSET ModIds
        /\ \A m \in DOMAIN L : L[m] \in Nat /\ L[m] >= 1
        /\ \A x, y \in DOMAIN L : L[x] = L[y] => x = y
        /\ L \in [DOMAIN L -> Nat]
    <3>1. /\ L \in OrderOf(ModsIn(k.src)) /\ DOMAIN L = ModsIn(k.src)
          /\ ModsIn(k.src) \in SUBSET ModIds
          /\ \A m \in DOMAIN L : L[m] \in Nat /\ L[m] >= 1
          /\ \A x, y \in DOMAIN L : L[x] = L[y] => x = y
      BY <1>2, <1>5, <2>2, ListFacts DEF Copies
    <3>. QED
      BY <3>1 DEF OrderOf
  <2>5. /\ k.pid \in ProfileIds /\ k.pid # k.src /\ k.mid \in DOMAIN L
        /\ DOMAIN k.list = {m \in DOMAIN L : L[m] > L[k.mid]}
        /\ \A m \in DOMAIN k.list : k.list[m] = L[m]
    BY <2>1, <2>2 DEF Copied
  <2>6. PICK done : done = {m \in DOMAIN L : L[m] <= L[k.mid]}
    OBVIOUS
  <2>7. /\ done \in SUBSET DOMAIN L /\ ModsIn(k.pid)' = done
        /\ \A m \in done : prio'[k.pid][m] = L[m]
        /\ DOMAIN k.list = DOMAIN L \ done
        /\ \A x \in done, y \in DOMAIN k.list : L[x] < L[y]
    BY <2>3, <2>4, <2>5, <2>6
  <2>8. PICK S : S = DOMAIN L
    OBVIOUS
  <2>9. ReplacePlanned(r)' /\ ClonePlanned(r)'
    BY <1>2, <1>3, <1>5, <2>3, <2>4, <2>5, <2>7, <2>8, CopyGoesOn
  <2>. QED
    BY <1>2, <1>3, <2>9, OnlyThread
<1>. QED
  BY <1>4, <1>5

\* list_profile_mods of the source: the loop starts with its head.
LEMMA ListingKeepsPlan ==
  ASSUME OneThread, IInv, SerialInv, NEW c \in Conns, ListSource(c)
  PROVE  PlannedInv'
<1>1. PICK k : k = call[c]
  OBVIOUS
<1>2. /\ TablesInv /\ k \in Calls /\ k.at = "cloneList" /\ k.src \in ProfileIds
      /\ Continue(c, AfterAdd([k EXCEPT !.list = ListOf(k.src)])) /\ UNCHANGED tables
  BY <1>1 DEF IInv, GoodCalls, ListSource
<1>3. k.pid \in ProfileIds /\ k.pid # k.src /\ ModsIn(k.pid) = {}
  BY <1>1, <1>2 DEF SerialInv, PlannedInv, ClonePlanned
<1>4. PICK L : L = ListOf(k.src)
  OBVIOUS
<1>5. /\ L \in OrderOf(ModsIn(k.src)) /\ DOMAIN L = ModsIn(k.src)
      /\ ModsIn(k.src) \in SUBSET ModIds
      /\ \A m \in DOMAIN L : L[m] \in Nat
      /\ \A x, y \in DOMAIN L : L[x] = L[y] => x = y
  BY <1>2, <1>4, ListFacts
<1>6. PICK S : S = ModsIn(k.src)
  OBVIOUS
<1>7. prio' = prio /\ ModsIn(k.pid)' = {} /\ L = ListOf(k.src)'
  <2>1. prio' = prio
    BY <1>2 DEF tables
  <2>. QED
    BY <1>2, <1>3, <1>4, <2>1, ListStays
<1>8. PICK q : q = [k EXCEPT !.list = L]
  OBVIOUS
<1>9. L \in Orders
  BY <1>5, OrdersOfMods
<1>10. /\ q \in Calls /\ q.src = k.src /\ q.pid = k.pid /\ q.list = L /\ Copies(q)
  BY <1>2, <1>8, <1>9 DEF Calls, Copies
<1>11. PICK r : r = AfterAdd(q)
  OBVIOUS
<1>12. L \in [S -> Nat] /\ S \in SUBSET ModIds /\ DOMAIN L = S \ {}
  BY <1>5, <1>6 DEF OrderOf
<1>13. ReplacePlanned(r)' /\ ClonePlanned(r)'
  BY <1>3, <1>5, <1>6, <1>7, <1>10, <1>11, <1>12, CopyGoesOn
<1>. QED
  BY <1>2, <1>4, <1>8, <1>11, <1>13, OnlyThread

\* The other statements of a clone: what it has read stays true.
LEMMA ClonesArePlanned ==
  ASSUME OneThread, IInv, SerialInv, NEW c \in Conns,
         CountRow(c) \/ ReadMaxPriority(c) \/ CloneProfile(c) \/ InsertClone(c)
  PROVE  PlannedInv'
<1>1. PICK k : k = call[c]
  OBVIOUS
<1>2. /\ TablesInv /\ profiles \subseteq ProfileIds /\ k \in Calls
      /\ ReplacePlanned(k) /\ ClonePlanned(k)
  BY <1>1 DEF IInv, GoodCalls, TablesInv, TablesTypeOK, SerialInv, PlannedInv
<1>3. ASSUME UNCHANGED tables, NEW p \in ProfileIds
      PROVE  ListOf(p)' = ListOf(p) /\ ModsIn(p)' = ModsIn(p) /\ prio'[p] = prio[p]
  <2>1. prio'[p] = prio[p]
    BY <1>3 DEF tables
  <2>. QED
    BY <2>1, ListStays
<1>4. CASE CountRow(c)
  <2>1. /\ k.at = "count" /\ UNCHANGED tables
        /\ Continue(c, IF k.mid \in ModsIn(k.pid) THEN AfterAdd(k) ELSE [k EXCEPT !.at = "max"])
    BY <1>1, <1>4 DEF CountRow
  <2>2. PICK q : q = [k EXCEPT !.at = "max"]
    OBVIOUS
  <2>3. /\ q.at = "max" /\ q.src = k.src /\ q.pid = k.pid /\ q.mid = k.mid
        /\ q.list = k.list
    BY <1>2, <2>2 DEF Calls
  <2>4. CASE ~ Copies(k)
    <3>1. PICK r : r = AfterAdd(k)
      OBVIOUS
    <3>2. ReplacePlanned(r)' /\ ClonePlanned(r)'
      BY <1>2, <2>4, <3>1, AddStaysPlain, PlainIsPlanned
    <3>3. ~ Copies(q)
      BY <2>3, <2>4 DEF Copies
    <3>4. ReplacePlanned(q)' /\ ClonePlanned(q)'
      BY <2>3, <3>3, PlainIsPlanned
    <3>5. Continue(c, q) \/ Continue(c, r)
      BY <2>1, <2>2, <3>1
    <3>. QED
      BY <3>2, <3>4, <3>5, OnlyThread
  <2>5. CASE Copies(k)
    <3>1. Copied(ListOf(k.src), k) /\ k.src \in ProfileIds
      BY <1>2, <2>1, <2>5 DEF ClonePlanned, Copies
    <3>2. PICK L : L = ListOf(k.src)
      OBVIOUS
    <3>3. \A m \in DOMAIN L : L[m] \in Nat
      BY <1>2, <3>1, <3>2, ListFacts
    <3>4. k.mid \notin ModsIn(k.pid)
      BY <3>1, <3>2, <3>3 DEF Copied
    <3>5. Continue(c, q)
      BY <2>1, <2>2, <3>4
    <3>6. Copied(ListOf(k.src), k)' /\ L = ListOf(k.src)'
      BY <1>3, <2>1, <3>1, <3>2 DEF Copied
    <3>7. Copied(ListOf(q.src), q)'
      BY <2>3, <3>6 DEF Copied
    <3>8. ReplacePlanned(q)' /\ ClonePlanned(q)'
      BY <2>3, <3>7 DEF ReplacePlanned, ClonePlanned
    <3>. QED
      BY <3>5, <3>8, OnlyThread
  <2>. QED
    BY <2>4, <2>5
<1>5. CASE ReadMaxPriority(c)
  <2>1. /\ k.at = "max" /\ UNCHANGED tables
        /\ \E n \in 1 .. MaxPriority :
             IsNextPriority(k.pid, n) /\ Continue(c, [k EXCEPT !.at = "insert", !.next = n])
    BY <1>1, <1>5 DEF ReadMaxPriority
  <2>2. PICK n \in 1 .. MaxPriority :
          IsNextPriority(k.pid, n) /\ Continue(c, [k EXCEPT !.at = "insert", !.next = n])
    BY <2>1
  <2>3. n \in Nat /\ n >= 1
    BY MaxPriorityAssumption
  <2>4. PICK q : q = [k EXCEPT !.at = "insert", !.next = n]
    OBVIOUS
  <2>5. /\ q.at = "insert" /\ q.src = k.src /\ q.pid = k.pid /\ q.mid = k.mid
        /\ q.list = k.list /\ q.next = n
    BY <1>2, <2>4 DEF Calls
  <2>6. CASE ~ Copies(k)
    <3>1. ~ Copies(q)
      BY <2>5, <2>6 DEF Copies
    <3>2. ReplacePlanned(q)' /\ ClonePlanned(q)'
      BY <2>5, <3>1, PlainIsPlanned
    <3>. QED
      BY <2>2, <2>4, <3>2, OnlyThread
  <2>7. CASE Copies(k)
    <3>1. Copied(ListOf(k.src), k) /\ k.src \in ProfileIds
      BY <1>2, <2>1, <2>7 DEF ClonePlanned, Copies
    <3>2. n = ListOf(k.src)[k.mid]
      BY <1>2, <2>2, <2>3, <2>7, <3>1, NextIsPosition
    <3>3. PICK L : L = ListOf(k.src)
      OBVIOUS
    <3>4. Copied(ListOf(k.src), k)' /\ L = ListOf(k.src)'
      BY <1>3, <2>1, <3>1, <3>3 DEF Copied
    <3>5. Copied(ListOf(q.src), q)'
      BY <2>5, <3>2, <3>3, <3>4 DEF Copied
    <3>6. ReplacePlanned(q)' /\ ClonePlanned(q)'
      BY <2>5, <3>5 DEF ReplacePlanned, ClonePlanned
    <3>. QED
      BY <2>2, <2>4, <3>6, OnlyThread
  <2>. QED
    BY <2>6, <2>7
<1>6. CASE CloneProfile(c)
  <2>1. PICK s \in profiles, n \in Names :
          Continue(c, [Idle EXCEPT !.at = "cloneInsert", !.src = s, !.key = n])
    BY <1>6 DEF CloneProfile, Begin
  <2>2. PICK q : q = [Idle EXCEPT !.at = "cloneInsert", !.src = s, !.key = n]
    OBVIOUS
  <2>3. q.at = "cloneInsert" /\ q.src = s
    BY <2>2 DEF Idle
  <2>4. s \in profiles'
    BY <1>6 DEF CloneProfile, tables
  <2>5. ReplacePlanned(q)' /\ ClonePlanned(q)'
    BY <2>3, <2>4 DEF ReplacePlanned, ClonePlanned
  <2>. QED
    BY <2>1, <2>2, <2>5, OnlyThread
<1>7. CASE InsertClone(c)
  <2>1. k.at = "cloneInsert" /\ \E p \in ProfileIds :
          InsertProfileRow(p) /\ Continue(c, [k EXCEPT !.at = "cloneList", !.pid = p])
    BY <1>1, <1>7 DEF InsertClone
  <2>2. PICK p \in ProfileIds :
          InsertProfileRow(p) /\ Continue(c, [k EXCEPT !.at = "cloneList", !.pid = p])
    BY <2>1
  <2>3. p \notin profiles /\ prio' = prio
    BY <2>2 DEF InsertProfileRow, SerialInv, SpentInv
  <2>4. p # k.src
    BY <1>2, <2>1, <2>3 DEF ClonePlanned
  <2>5. ModsIn(p)' = {}
    BY <1>2, <2>3 DEF ModsIn, TablesInv, RowsHaveOwners
  <2>6. PICK q : q = [k EXCEPT !.at = "cloneList", !.pid = p]
    OBVIOUS
  <2>7. q.at = "cloneList" /\ q.src = k.src /\ q.pid = p
    BY <1>2, <2>6 DEF Calls
  <2>8. ReplacePlanned(q)' /\ ClonePlanned(q)'
    BY <2>4, <2>5, <2>7 DEF ReplacePlanned, ClonePlanned
  <2>. QED
    BY <2>2, <2>6, <2>8, OnlyThread
<1>. QED
  BY <1>4, <1>5, <1>6, <1>7

\* A statement that is a whole operation runs between operations.
LEMMA BetweenOperations ==
  ASSUME OneThread, NEW c \in Conns, call[c].at = "idle", UNCHANGED call
  PROVE  PlannedInv'
<1>1. ASSUME NEW d \in Conns PROVE call'[d].at = "idle"
  BY DEF OneThread
<1>2. ASSUME NEW d \in Conns PROVE ReplacePlanned(call[d])' /\ ClonePlanned(call[d])'
  BY <1>1, <1>2 DEF ReplacePlanned, ClonePlanned
<1>. QED
  BY <1>2 DEF PlannedInv

\* Every step of the one thread keeps what is planned.
LEMMA StepKeepsPlans ==
  ASSUME OneThread, IInv, SerialInv, NEW c \in Conns, ModListStep(c) \/ ProfileStep(c)
  PROVE  PlannedInv'
<1>1. PICK k : k = call[c]
  OBVIOUS
<1>2. k \in Calls /\ ClonePlanned(k)
  BY <1>1 DEF IInv, GoodCalls, SerialInv, PlannedInv
<1>3. ASSUME Return(c) PROVE PlannedInv'
  <2>1. PICK q : q = Idle
    OBVIOUS
  <2>. QED
    BY <1>3, <2>1, IdleIsPlanned, OnlyThread DEF Return
<1>4. ASSUME NEW q, Continue(c, q), q.at \notin {"replace", "cloneInsert", "cloneList"},
             q.at \in {"readActive", "count", "max", "insert"} => ~ Copies(q)
      PROVE  PlannedInv'
  BY <1>4, PlainIsPlanned, OnlyThread
<1>5. CASE \/ InsertRefused(c) \/ ReplaceAll(c) \/ ReplaceRefused(c)
           \/ InsertModRefused(c) \/ Abort(c) \/ CommitActive(c) \/ CommitDelete(c)
           \/ InsertNameRefused(c)
  BY <1>3, <1>5 DEF InsertRefused, ReplaceAll, ReplaceRefused, InsertModRefused, Abort,
     CommitActive, CommitDelete, InsertNameRefused
<1>6. CASE SetModEnabled(c) \/ DeleteMod(c) \/ CreateProfile(c) \/ DeleteRow(c)
  <2>1. call[c].at = "idle" /\ UNCHANGED call
    BY <1>6 DEF SetModEnabled, DeleteMod, CreateProfile, DeleteRow
  <2>. QED
    BY <2>1, BetweenOperations
<1>7. CASE AddMod(c)
  <2>1. PICK p \in spent.profiles, m \in spent.mods :
          Continue(c, [Idle EXCEPT !.at = "count", !.pid = p, !.mid = m])
    BY <1>7 DEF AddMod, Begin
  <2>2. PICK q : q = [Idle EXCEPT !.at = "count", !.pid = p, !.mid = m]
    OBVIOUS
  <2>3. q.at = "count" /\ q.src = None
    BY <2>2 DEF Idle
  <2>4. ~ Copies(q)
    BY <2>3, NoneAssumption DEF Copies
  <2>. QED
    BY <1>4, <2>1, <2>2, <2>3, <2>4
<1>8. CASE InstallMod(c) \/ InsertMod(c)
  <2>1. \/ \E m : Continue(c, [Idle EXCEPT !.at = "readActive", !.mid = m])
        \/ \E s : Continue(c, [Idle EXCEPT !.at = "insertMod", !.key = s])
    BY <1>8 DEF InstallMod, InsertMod, Begin
  <2>2. ASSUME NEW m, NEW q, q = [Idle EXCEPT !.at = "readActive", !.mid = m]
        PROVE  q.at = "readActive" /\ ~ Copies(q)
    BY <2>2, NoneAssumption DEF Idle, Copies
  <2>3. ASSUME NEW s, NEW q, q = [Idle EXCEPT !.at = "insertMod", !.key = s]
        PROVE  q.at = "insertMod"
    BY <2>3 DEF Idle
  <2>. QED
    BY <1>4, <2>1, <2>2, <2>3
<1>9. CASE ReadActive(c)
  <2>1. k.at = "readActive" /\ ~ Copies(k)
    BY <1>1, <1>2, <1>9 DEF ReadActive, ClonePlanned
  <2>2. CASE Return(c)
    BY <1>3, <2>2
  <2>3. CASE \E p \in active : Continue(c, [k EXCEPT !.at = "count", !.pid = p])
    <3>1. PICK p \in active : Continue(c, [k EXCEPT !.at = "count", !.pid = p])
      BY <2>3
    <3>2. PICK q : q = [k EXCEPT !.at = "count", !.pid = p]
      OBVIOUS
    <3>3. q.at = "count" /\ ~ Copies(q)
      BY <1>2, <2>1, <3>2 DEF Calls, Copies
    <3>. QED
      BY <1>4, <3>1, <3>2, <3>3
  <2>. QED
    BY <1>1, <1>9, <2>2, <2>3 DEF ReadActive
<1>10. CASE SetActive(c) \/ DeleteProfile(c) \/ EnsureDefault(c) \/ InsertDefault(c)
  <2>1. \/ \E p : Continue(c, [Idle EXCEPT !.at = "setActive", !.pid = p])
        \/ \E p : Continue(c, [Idle EXCEPT !.at = "delete", !.pid = p])
        \/ \E p : Continue(c, [Idle EXCEPT !.at = "activate", !.pid = p])
        \/ \E n : Continue(c, [Idle EXCEPT !.at = "ensureInsert", !.key = n])
    BY <1>10 DEF SetActive, DeleteProfile, EnsureDefault, InsertDefault, Begin
  <2>2. /\ \A p : [Idle EXCEPT !.at = "setActive", !.pid = p].at = "setActive"
        /\ \A p : [Idle EXCEPT !.at = "delete", !.pid = p].at = "delete"
        /\ \A p : [Idle EXCEPT !.at = "activate", !.pid = p].at = "activate"
        /\ \A n : [Idle EXCEPT !.at = "ensureInsert", !.key = n].at = "ensureInsert"
    BY DEF Idle
  <2>3. PICK q : /\ Continue(c, q)
                 /\ q.at \in {"setActive", "delete", "ensureInsert", "activate"}
    BY <2>1, <2>2
  <2>. QED
    BY <1>4, <2>3
<1>11. CASE ActivateDefault(c)
  <2>1. Return(c) \/ Continue(c, [k EXCEPT !.at = "setActive"])
    BY <1>1, <1>11 DEF ActivateDefault, Return
  <2>2. PICK q : q = [k EXCEPT !.at = "setActive"]
    OBVIOUS
  <2>3. q.at = "setActive"
    BY <1>2, <2>2 DEF Calls
  <2>. QED
    BY <1>3, <1>4, <2>1, <2>2, <2>3
<1>. QED
  BY <1>5, <1>6, <1>7, <1>8, <1>9, <1>10, <1>11, PlansArePlanned, AddKeepsPlan,
     ListingKeepsPlan, ClonesArePlanned DEF ModListStep, ProfileStep

\* SerialInv is inductive under IInv.
LEMMA SerialStep ==
  ASSUME OneThread, IInv, SerialInv, [Next]_vars
  PROVE  SerialInv'
<1>1. CASE Next
  <2>1. PICK c \in Conns : ModListStep(c) \/ ProfileStep(c)
    BY <1>1 DEF Next
  <2>2. Statement
    BY <2>1, ModListSteps, ProfileSteps
  <2>. QED
    BY <2>1, <2>2, StatementKeepsSpent, StepKeepsPlans DEF IInv, SerialInv
<1>2. CASE UNCHANGED vars
  <2>1. UNCHANGED tables /\ call' = call
    BY <1>2 DEF vars
  <2>2. prio' = prio /\ enabled' = enabled /\ profiles' = profiles /\ spent' = spent
    BY <2>1 DEF tables
  <2>3. ASSUME NEW d \in Conns, NEW k, k = call[d]
        PROVE  ReplacePlanned(k)' /\ ClonePlanned(k)'
    <3>1. ReplacePlanned(k) /\ ClonePlanned(k)
      BY <2>3 DEF SerialInv, PlannedInv
    <3>2. ReplacePlanned(k)'
      BY <2>2, <3>1 DEF ReplacePlanned, AskedToDrop, ModsIn
    <3>3. k.src \in ProfileIds => ListOf(k.src)' = ListOf(k.src)
      BY <2>2, ListStays
    <3>4. ModsIn(k.pid)' = ModsIn(k.pid)
      BY <2>2 DEF ModsIn
    <3>5. ClonePlanned(k)'
      BY <2>2, <3>1, <3>3, <3>4 DEF ClonePlanned, Copies, Copied
    <3>. QED
      BY <3>2, <3>5
  <2>4. ASSUME NEW d \in Conns PROVE ReplacePlanned(call[d])' /\ ClonePlanned(call[d])'
    <3>1. PICK k : k = call[d] /\ k = call'[d]
      BY <2>1
    <3>2. ReplacePlanned(k)' /\ ClonePlanned(k)'
      BY <2>3, <3>1
    <3>. QED
      BY <3>1, <3>2 DEF ReplacePlanned, ClonePlanned, Copies, Copied, AskedToDrop
  <2>. QED
    BY <2>2, <2>4 DEF SerialInv, SpentInv, PlannedInv
<1>. QED
  BY <1>1, <1>2

\* Only the commit of a list ends a "replace" with other tables.
LEMMA ReplaceStep ==
  ASSUME IInv, NEW d \in Conns, ModListStep(d) \/ ProfileStep(d),
         NEW c \in Conns, Ends(c, "replace"), <<prio, enabled>>' # <<prio, enabled>>, OneThread
  PROVE  ReplaceAll(c)
<1>1. c = d /\ call[c].at = "replace" /\ call' # call /\ ~ UNCHANGED tables
  BY DEF Ends, OneThread, tables
<1>. QED
  BY <1>1 DEF ModListStep, ProfileStep, AddMod, CountRow, ReadMaxPriority, InsertProfileMod,
     InsertRefused, RemoveMod, MoveMod, ReorderMods, ReplaceRefused, SetModEnabled,
     DeleteMod, InstallMod, InsertMod, InsertModRefused, ReadActive, Abort, CreateProfile,
     SetActive, CommitActive, DeleteRow, DeleteProfile, CommitDelete, CloneProfile,
     InsertClone, ListSource, EnsureDefault, InsertDefault, InsertNameRefused,
     ActivateDefault

\* Only an INSERT ends an "insert" with other priorities.
LEMMA InsertStep ==
  ASSUME IInv, NEW d \in Conns, ModListStep(d) \/ ProfileStep(d),
         NEW c \in Conns, Ends(c, "insert"), prio' # prio, OneThread
  PROVE  InsertProfileMod(c)
<1>1. c = d /\ call[c].at = "insert" /\ call' # call /\ ~ UNCHANGED tables
  BY DEF Ends, OneThread, tables
<1>. QED
  BY <1>1 DEF ModListStep, ProfileStep, AddMod, CountRow, ReadMaxPriority,
     InsertRefused, RemoveMod, MoveMod, ReorderMods, ReplaceAll, ReplaceRefused, SetModEnabled,
     DeleteMod, InstallMod, InsertMod, InsertModRefused, ReadActive, Abort, CreateProfile,
     SetActive, CommitActive, DeleteRow, DeleteProfile, CommitDelete, CloneProfile,
     InsertClone, ListSource, EnsureDefault, InsertDefault, InsertNameRefused,
     ActivateDefault

\* The commit of a planned list drops the mod to remove and nothing else.
LEMMA CommitKeepsOthers ==
  ASSUME IInv, SerialInv, NEW c \in Conns, ReplaceAll(c), NEW k, k = call[c]
  PROVE  /\ ModsIn(k.pid)' = ModsIn(k.pid) \ AskedToDrop(k)
         /\ enabled'[k.pid] = enabled[k.pid] \ AskedToDrop(k)
<1>1. /\ TablesInv /\ k.at = "replace" /\ k.list \in Orders /\ ReplacePlanned(k)
      /\ ReplaceRows(k.pid, k.list, k.on)
  BY DEF IInv, GoodCalls, Calls, ReplaceAll, SerialInv, PlannedInv
<1>2. /\ k.pid \in ProfileIds /\ DOMAIN k.list = ModsIn(k.pid) \ AskedToDrop(k)
      /\ k.on = enabled[k.pid] \cap DOMAIN k.list
  BY <1>1 DEF ReplacePlanned
<1>3. \A m \in DOMAIN k.list : m \in ModIds /\ k.list[m] # 0
  BY <1>1 DEF Orders
<1>4. /\ \A m \in ModIds : prio'[k.pid][m] = IF m \in DOMAIN k.list THEN k.list[m] ELSE 0
      /\ enabled'[k.pid] = k.on \cap DOMAIN k.list
  BY <1>1, <1>2 DEF ReplaceRows, TablesInv, TablesTypeOK
<1>5. ModsIn(k.pid)' = DOMAIN k.list
  BY <1>3, <1>4 DEF ModsIn
<1>6. enabled[k.pid] \subseteq ModsIn(k.pid)
  BY <1>1, <1>2 DEF TablesInv, TablesTypeOK, RowsHaveOwners, ModsIn
<1>. QED
  BY <1>2, <1>4, <1>5, <1>6

\* With the last row of a clone its order is that of the source.
LEMMA LastRowCompletes ==
  ASSUME IInv, SerialInv, NEW c \in Conns, InsertProfileMod(c), Ends(c, "insert"),
         NEW k, k = call[c], Copies(k)
  PROVE  ListOf(k.pid)' = ListOf(k.src)
<1>1. /\ TablesInv /\ k \in Calls /\ k.at = "insert" /\ Copied(ListOf(k.src), k)
      /\ InsertRow(k.pid, k.mid, k.next) /\ Continue(c, AfterAdd(k))
  BY DEF IInv, GoodCalls, InsertProfileMod, SerialInv, PlannedInv, ClonePlanned
<1>2. DOMAIN k.list = {}
  <2>1. PICK r : r = AfterAdd(k)
    OBVIOUS
  <2>2. r.at = "idle"
    BY <1>1, <2>1 DEF Ends, Continue, IInv
  <2>3. SUFFICES ASSUME DOMAIN k.list # {} PROVE FALSE
    OBVIOUS
  <2>4. r = [k EXCEPT !.at = "count", !.mid = HeadOf(k.list),
                      !.list = RestOf(k.list), !.next = 0]
    BY <2>1, <2>3 DEF AfterAdd
  <2>5. r.at = "count"
    BY <1>1, <2>4 DEF Calls
  <2>. QED
    BY <2>2, <2>5
<1>3. PICK L : L = ListOf(k.src)
  OBVIOUS
<1>4. /\ ModsIn(k.pid)' = {m \in DOMAIN L : L[m] <= L[k.mid]}
      /\ \A m \in ModsIn(k.pid)' : prio'[k.pid][m] = L[m]
  BY <1>1, <1>3, RowIsCopied
<1>5. /\ L \in OrderOf(ModsIn(k.src)) /\ DOMAIN L = ModsIn(k.src)
      /\ IsFiniteSet(ModsIn(k.src)) /\ \A m \in DOMAIN L : L[m] \in Nat
  BY <1>1, <1>3, ListFacts DEF Copies
<1>6. k.mid \in DOMAIN L /\ DOMAIN k.list = {m \in DOMAIN L : L[m] > L[k.mid]}
  BY <1>1, <1>3 DEF Copied
<1>7. ModsIn(k.pid)' = DOMAIN L
  BY <1>2, <1>4, <1>5, <1>6
<1>8. [m \in ModsIn(k.pid)' |-> prio'[k.pid][m]] = L
  <2>1. L = [m \in DOMAIN L |-> L[m]]
    BY <1>5 DEF OrderOf
  <2>. QED
    BY <1>4, <1>7, <2>1
<1>9. ListOf(k.pid)' = Ranked(L)
  BY <1>8 DEF ListOf
<1>10. Ranked(L) = L
  BY <1>5, OrderIsItsRanking
<1>. QED
  BY <1>3, <1>9, <1>10

\* With one thread, the operations that rewrite or copy a list keep what they
\* are not about: remove, move and reorder every other mod and its flag,
\* clone_profile the order of its source.
THEOREM ListsAreKept ==
  ASSUME OneThread
  PROVE  Spec => ListsKept
<1>1. Init => SerialInv
  <2>1. Idle.at = "idle"
    BY DEF Idle
  <2>2. ASSUME NEW k, k.at = "idle" PROVE ReplacePlanned(k) /\ ClonePlanned(k)
    BY <2>2 DEF ReplacePlanned, ClonePlanned
  <2>. QED
    BY <2>1, <2>2 DEF Init, EmptyDb, SerialInv, SpentInv, PlannedInv
<1>2. IInv /\ SerialInv /\ [Next]_vars => SerialInv'
  BY SerialStep
<1>3. IInv /\ SerialInv /\ [Next]_vars => [ReplaceKeepsOthers /\ CloneKeepsOrder]_vars
  <2>1. SUFFICES ASSUME IInv, SerialInv, Next PROVE ReplaceKeepsOthers /\ CloneKeepsOrder
    OBVIOUS
  <2>2. PICK d \in Conns : ModListStep(d) \/ ProfileStep(d)
    BY <2>1 DEF Next
  <2>3. ReplaceKeepsOthers
    <3>1. SUFFICES ASSUME NEW c \in Conns, NEW k, k = call[c], Ends(c, "replace"),
                          <<prio, enabled>>' # <<prio, enabled>>
                   PROVE  /\ ModsIn(k.pid)' = ModsIn(k.pid) \ AskedToDrop(k)
                          /\ enabled'[k.pid] = enabled[k.pid] \ AskedToDrop(k)
      BY DEF ReplaceKeepsOthers
    <3>2. ReplaceAll(c)
      BY <2>1, <2>2, <3>1, ReplaceStep
    <3>. QED
      BY <2>1, <3>1, <3>2, CommitKeepsOthers
  <2>4. CloneKeepsOrder
    <3>1. SUFFICES ASSUME NEW c \in Conns, NEW k, k = call[c], Ends(c, "insert"),
                          prio' # prio, k.src \in ProfileIds
                   PROVE  ListOf(k.pid)' = ListOf(k.src)
      BY DEF CloneKeepsOrder
    <3>2. InsertProfileMod(c)
      BY <2>1, <2>2, <3>1, InsertStep
    <3>. QED
      BY <2>1, <3>1, <3>2, LastRowCompletes DEF Copies
  <2>. QED
    BY <2>3, <2>4
<1>. QED
  BY <1>1, <1>2, <1>3, InvHolds, PTL DEF Spec, ListsKept

(***************************************************************************)
(* The Vecs.                                                               *)
(*                                                                         *)
(* A caller sees a Vec per profile (ModListVecs).  A Vec is determined by  *)
(* what sorts it: VecOfKey, SortedIsVec and VecIsUnique take the place of  *)
(* its definition by CHOOSE.  WithoutPlaces and MovedPlaces say where the  *)
(* arithmetic of ModOrder puts every mod, FilteredPlaces and               *)
(* InsertedPlaces where remove and insert put it on a Vec; comparing the   *)
(* two gives PositionsAreVecs.  For the refinement each of the five writes *)
(* of priorities is an operation on a Vec; VecInv adds that what the one   *)
(* thread has read for that write is still true.                           *)
(***************************************************************************)

\* v is the Vec of the order f: position i holds the mod with priority i.
IsVecOf(v, S, f) ==
  /\ v \in [1 .. Cardinality(S) -> S]
  /\ \A i \in 1 .. Cardinality(S) : f[v[i]] = i

\* The same comparisons give the same ranks.
LEMMA SameRanks ==
  ASSUME NEW S, NEW f, NEW g, DOMAIN f = S, DOMAIN g = S,
         \A x, y \in S : f[x] <= f[y] <=> g[x] <= g[y]
  PROVE  Ranked(f) = Ranked(g)
<1>1. ASSUME NEW m \in S PROVE {k \in S : f[k] <= f[m]} = {k \in S : g[k] <= g[m]}
  OBVIOUS
<1>. QED
  BY <1>1 DEF Ranked

\* The Vec of an order exists: its inverse.
LEMMA VecExists ==
  ASSUME NEW S, IsFiniteSet(S), NEW f \in OrderOf(S)
  PROVE  \E v : IsVecOf(v, S, f)
<1>. DEFINE v == [i \in 1 .. Cardinality(S) |-> CHOOSE m \in S : f[m] = i]
<1>1. \A i \in 1 .. Cardinality(S) : \E m \in S : f[m] = i
  BY OneToOneIsDense DEF OrderOf
<1>2. IsVecOf(v, S, f)
  BY <1>1 DEF IsVecOf
<1>. QED
  BY <1>2

\* The Vec of an order lists every mod once, at its position.
LEMMA VecFacts ==
  ASSUME NEW S, IsFiniteSet(S), NEW f \in OrderOf(S), NEW v, IsVecOf(v, S, f)
  PROVE  /\ Cardinality(S) \in Nat /\ v \in Seq(S) /\ Len(v) = Cardinality(S)
         /\ DOMAIN v = 1 .. Cardinality(S)
         /\ \A i, j \in DOMAIN v : v[i] = v[j] => i = j
         /\ \A m \in S : f[m] \in DOMAIN v /\ v[f[m]] = m
         /\ {v[i] : i \in DOMAIN v} = S
<1>1. Cardinality(S) \in Nat
  BY FS_CardinalityType
<1>2. v \in [1 .. Cardinality(S) -> S] /\ \A i \in 1 .. Cardinality(S) : f[v[i]] = i
  BY DEF IsVecOf
<1>3. v \in Seq(S) /\ Len(v) = Cardinality(S) /\ DOMAIN v = 1 .. Cardinality(S)
  BY <1>1, <1>2
<1>4. f \in [S -> 1 .. Cardinality(S)] /\ \A x, y \in S : f[x] = f[y] => x = y
  BY DEF OrderOf, OneToOne
<1>5. \A m \in S : f[m] \in DOMAIN v /\ v[f[m]] = m
  BY <1>2, <1>3, <1>4
<1>. QED
  BY <1>1, <1>2, <1>3, <1>5

\* No two Vecs have the same order.
LEMMA VecIsUnique ==
  ASSUME NEW S, NEW f \in OrderOf(S), NEW v, NEW w, IsVecOf(v, S, f), IsVecOf(w, S, f)
  PROVE  v = w
<1>1. \A x, y \in S : f[x] = f[y] => x = y
  BY DEF OrderOf, OneToOne
<1>2. \A i \in 1 .. Cardinality(S) : v[i] = w[i]
  BY <1>1 DEF IsVecOf
<1>3. PICK D : D = 1 .. Cardinality(S)
  OBVIOUS
<1>4. v \in [D -> S] /\ w \in [D -> S]
  BY <1>3 DEF IsVecOf
<1>5. \A i \in D : v[i] = w[i]
  BY <1>2, <1>3
<1>. QED
  BY <1>4, <1>5

\* v lists the mods in S in the order of their keys.
Sorts(v, S, key) ==
  /\ v \in [1 .. Cardinality(S) -> S]
  /\ \A i, j \in 1 .. Cardinality(S) : i < j => key[v[i]] < key[v[j]]

\* Sorting by distinct keys puts every mod at its rank.
LEMMA SortedIsRanked ==
  ASSUME NEW S, IsFiniteSet(S), NEW key \in [S -> Int], OneToOne(key),
         NEW v, Sorts(v, S, key)
  PROVE  IsVecOf(v, S, Ranked(key))
<1>0. /\ v \in [1 .. Cardinality(S) -> S]
      /\ \A i, j \in 1 .. Cardinality(S) : i < j => key[v[i]] < key[v[j]]
  BY DEF Sorts
<1>1. PICK n : n = Cardinality(S) /\ n \in Nat
  BY FS_CardinalityType
<1>2. IsFiniteSet(1 .. n) /\ Cardinality(1 .. n) = n
  BY <1>1, FS_Interval
<1>3. \A i, j \in 1 .. n : v[i] = v[j] => i = j
  BY <1>0, <1>1
<1>4. v \in Injection(1 .. n, S)
  BY <1>0, <1>1, <1>3 DEF Injection, IsInjective
<1>5. v \in Surjection(1 .. n, S)
  BY <1>0, <1>1, <1>2, <1>4, FS_Injection
<1>6. ASSUME NEW i \in 1 .. n
      PROVE  Ranked(key)[v[i]] = i
  <2>. DEFINE T == {k \in S : key[k] <= key[v[i]]}
              w == [j \in 1 .. i |-> v[j]]
  <2>1. T = {v[j] : j \in 1 .. i}
    <3>1. ASSUME NEW j \in 1 .. i PROVE v[j] \in T
      <4>1. j \in 1 .. n /\ v[j] \in S /\ v[i] \in S
        BY <1>0, <1>1
      <4>2. key[v[j]] <= key[v[i]]
        BY <1>0, <1>1, <4>1
      <4>. QED
        BY <4>1, <4>2
    <3>2. ASSUME NEW k \in T PROVE \E j \in 1 .. i : v[j] = k
      <4>1. PICK j \in 1 .. n : v[j] = k
        BY <1>5 DEF Surjection
      <4>2. ~ (i < j)
        <5>1. SUFFICES ASSUME i < j PROVE FALSE
          OBVIOUS
        <5>2. key[v[i]] < key[v[j]]
          BY <1>0, <1>1, <5>1
        <5>3. key[v[i]] \in Int /\ key[v[j]] \in Int
          BY <1>0, <1>1
        <5>. QED
          BY <4>1, <5>2, <5>3
      <4>. QED
        BY <1>0, <1>1, <4>1, <4>2
    <3>. QED
      BY <3>1, <3>2
  <2>2. IsFiniteSet(T)
    BY FS_Subset, T \in SUBSET S
  <2>3. i \in Nat /\ IsFiniteSet(1 .. i) /\ Cardinality(1 .. i) = i
    BY <1>1, FS_Interval
  <2>4. w \in [1 .. i -> T] /\ \A x, y \in 1 .. i : w[x] = w[y] => x = y
    BY <1>0, <1>1, <1>3, <2>1
  <2>5. \A k \in T : \E j \in 1 .. i : w[j] = k
    BY <2>1
  <2>6. Ranked(key)[v[i]] = Cardinality(T)
    BY <1>0, <1>1 DEF Ranked
  <2>. HIDE DEF T, w
  <2>7. w \in Bijection(1 .. i, T)
    BY <2>4, <2>5 DEF Bijection, Injection, Surjection, IsInjective
  <2>8. ExistsBijection(1 .. i, T)
    BY <2>7 DEF ExistsBijection
  <2>. QED
    BY <2>2, <2>3, <2>6, <2>8, FS_Bijection
<1>. QED
  BY <1>0, <1>1, <1>6 DEF IsVecOf

\* The Vec of mods with distinct priorities is sorted, and is the Vec of their
\* ranking.
LEMMA VecOfKey ==
  ASSUME NEW S, IsFiniteSet(S), NEW key \in [S -> Int], OneToOne(key)
  PROVE  Sorts(VecOf(key), S, key) /\ IsVecOf(VecOf(key), S, Ranked(key))
<1>1. Ranked(key) \in OrderOf(S)
  BY RankedIsOrder
<1>2. PICK v : IsVecOf(v, S, Ranked(key))
  BY <1>1, VecExists
<1>3. v \in [1 .. Cardinality(S) -> S] /\ Cardinality(S) \in Nat
  BY <1>2, FS_CardinalityType DEF IsVecOf
<1>4. ASSUME NEW i \in 1 .. Cardinality(S), NEW j \in 1 .. Cardinality(S), i < j
      PROVE  key[v[i]] < key[v[j]]
  <2>1. SUFFICES ASSUME ~ (key[v[i]] < key[v[j]]) PROVE FALSE
    OBVIOUS
  <2>2. PICK x \in S, y \in S : x = v[i] /\ y = v[j]
    BY <1>3
  <2>3. Ranked(key)[x] = i /\ Ranked(key)[y] = j
    BY <1>2, <2>2 DEF IsVecOf
  <2>4. key[y] < key[x] \/ key[x] = key[y]
    BY <2>1, <2>2
  <2>5. CASE key[y] < key[x]
    BY <1>3, <1>4, <2>3, <2>5, RankedMonotone
  <2>6. CASE key[x] = key[y]
    BY <1>3, <1>4, <2>3, <2>6 DEF OneToOne
  <2>. QED
    BY <2>4, <2>5, <2>6
<1>5. PICK w : w = VecOf(key)
  OBVIOUS
<1>6. DOMAIN key = S
  OBVIOUS
<1>7. DOMAIN v = 1 .. Cardinality(S)
  BY <1>3
<1>8. \E u \in [1 .. Cardinality(S) -> S] : \A i, j \in DOMAIN u : i < j => key[u[i]] < key[u[j]]
  BY <1>3, <1>4, <1>7
<1>9. /\ w \in [1 .. Cardinality(S) -> S]
      /\ \A i, j \in DOMAIN w : i < j => key[w[i]] < key[w[j]]
  BY <1>5, <1>6, <1>8 DEF VecOf
<1>10. Sorts(w, S, key)
  BY <1>3, <1>9 DEF Sorts
<1>11. IsVecOf(w, S, Ranked(key))
  BY <1>10, SortedIsRanked
<1>. QED
  BY <1>5, <1>10, <1>11

\* Whatever sorts the mods is their Vec.
LEMMA SortedIsVec ==
  ASSUME NEW S, IsFiniteSet(S), NEW key \in [S -> Int], OneToOne(key),
         NEW v, Sorts(v, S, key)
  PROVE  v = VecOf(key)
BY SortedIsRanked, VecOfKey, RankedIsOrder, VecIsUnique

\* An order is its own ranking, so that its Vec is its inverse.
LEMMA VecOfOrder ==
  ASSUME NEW S, IsFiniteSet(S), NEW f \in OrderOf(S)
  PROVE  IsVecOf(VecOf(f), S, f)
<1>1. f \in [S -> Int] /\ OneToOne(f)
  BY FS_CardinalityType DEF OrderOf
<1>2. Ranked(f) = f
  BY OrderIsItsRanking
<1>. QED
  BY <1>1, <1>2, VecOfKey

-----------------------------------------------------------------------------
\* The numbers of an order: positions, each at one mod.
LEMMA OrderFacts ==
  ASSUME NEW S, IsFiniteSet(S), NEW f \in OrderOf(S)
  PROVE  /\ Cardinality(S) \in Nat /\ DOMAIN f = S
         /\ \A m \in S : f[m] \in Nat /\ 1 <= f[m] /\ f[m] <= Cardinality(S)
         /\ \A x, y \in S : f[x] = f[y] => x = y
<1>1. Cardinality(S) \in Nat
  BY FS_CardinalityType
<1>2. f \in [S -> 1 .. Cardinality(S)] /\ OneToOne(f)
  BY DEF OrderOf
<1>3. DOMAIN f = S /\ \A m \in S : f[m] \in 1 .. Cardinality(S)
  BY <1>2
<1>. QED
  BY <1>1, <1>2, <1>3 DEF OneToOne

\* The arithmetic of a removal: what lay behind the mod moves up by one.
LEMMA WithoutPlaces ==
  ASSUME NEW S, IsFiniteSet(S), NEW f \in OrderOf(S), NEW m \in S, NEW k \in S, k # m
  PROVE  Without(f, m)[k] = IF f[k] < f[m] THEN f[k] ELSE f[k] - 1
<1>. DEFINE kept == [x \in S \ {m} |-> f[x]]
            g == [x \in S \ {m} |-> IF f[x] < f[m] THEN f[x] ELSE f[x] - 1]
<1>1. PICK n : n = Cardinality(S)
  OBVIOUS
<1>2. /\ n \in Nat /\ DOMAIN f = S
      /\ \A x \in S : f[x] \in Nat /\ 1 <= f[x] /\ f[x] <= n
      /\ \A x, y \in S : f[x] = f[y] => x = y
  BY <1>1, OrderFacts
<1>3. IsFiniteSet(S \ {m}) /\ Cardinality(S \ {m}) = n - 1
  BY <1>1, FS_RemoveElement
<1>4. \A x \in S \ {m} : g[x] \in 1 .. n - 1
  <2>1. ASSUME NEW x \in S \ {m} PROVE g[x] \in 1 .. n - 1
    <3>1. f[x] # f[m] /\ f[x] \in Nat /\ 1 <= f[x] /\ f[x] <= n
          /\ f[m] \in Nat /\ 1 <= f[m] /\ f[m] <= n
      BY <1>2
    <3>. QED
      BY <1>2, <3>1
  <2>. QED
    BY <2>1
<1>5. \A x, y \in S \ {m} : kept[x] <= kept[y] <=> g[x] <= g[y]
  <2>1. ASSUME NEW x \in S \ {m}, NEW y \in S \ {m}
        PROVE  kept[x] <= kept[y] <=> g[x] <= g[y]
    <3>1. /\ f[x] # f[m] /\ f[y] # f[m]
          /\ f[x] \in Nat /\ f[y] \in Nat /\ f[m] \in Nat
      BY <1>2
    <3>. QED
      BY <3>1
  <2>. QED
    BY <2>1
<1>6. \A x, y \in S \ {m} : g[x] = g[y] => x = y
  <2>1. ASSUME NEW x \in S \ {m}, NEW y \in S \ {m}, g[x] = g[y]
        PROVE  x = y
    <3>1. /\ f[x] # f[m] /\ f[y] # f[m]
          /\ f[x] \in Nat /\ f[y] \in Nat /\ f[m] \in Nat
      BY <1>2
    <3>2. f[x] = f[y]
      BY <2>1, <3>1
    <3>. QED
      BY <1>2, <3>2
  <2>. QED
    BY <2>1
<1>7. g \in [S \ {m} -> 1 .. Cardinality(S \ {m})]
  BY <1>3, <1>4
<1>8. Without(f, m) = Ranked(kept) /\ DOMAIN kept = S \ {m} /\ DOMAIN g = S \ {m}
  BY <1>2 DEF Without
<1>9. g[k] = IF f[k] < f[m] THEN f[k] ELSE f[k] - 1
  OBVIOUS
<1>. HIDE DEF kept, g
<1>10. g \in OrderOf(S \ {m})
  BY <1>6, <1>7, <1>8 DEF OrderOf, OneToOne
<1>11. Ranked(kept) = Ranked(g)
  BY <1>5, <1>8, SameRanks
<1>12. Ranked(g) = g
  BY <1>3, <1>10, OrderIsItsRanking
<1>. QED
  BY <1>8, <1>9, <1>11, <1>12

\* The arithmetic of a move: the mod gets the position asked for, and the mods
\* between its old and its new place close up.
LEMMA MovedPlaces ==
  ASSUME NEW S, IsFiniteSet(S), NEW f \in OrderOf(S), NEW m \in S,
         NEW t \in 1 .. Cardinality(S), NEW k \in S
  PROVE  Moved(f, m, t)[k] =
           IF k = m THEN t
           ELSE IF f[m] < f[k] /\ f[k] <= t THEN f[k] - 1
           ELSE IF t <= f[k] /\ f[k] < f[m] THEN f[k] + 1
           ELSE f[k]
<1>. DEFINE key == [x \in S |-> IF x # m THEN 2 * f[x]
                                ELSE IF t > f[m] THEN 2 * t + 1 ELSE 2 * t - 1]
            g == [x \in S |->
                    IF x = m THEN t
                    ELSE IF f[m] < f[x] /\ f[x] <= t THEN f[x] - 1
                    ELSE IF t <= f[x] /\ f[x] < f[m] THEN f[x] + 1
                    ELSE f[x]]
<1>1. PICK n : n = Cardinality(S)
  OBVIOUS
<1>2. /\ n \in Nat /\ DOMAIN f = S
      /\ \A x \in S : f[x] \in Nat /\ 1 <= f[x] /\ f[x] <= n
      /\ \A x, y \in S : f[x] = f[y] => x = y
  BY <1>1, OrderFacts
<1>3. t \in Nat /\ 1 <= t /\ t <= n
  BY <1>1, <1>2
<1>4. \A x \in S : g[x] \in 1 .. n
  <2>1. ASSUME NEW x \in S PROVE g[x] \in 1 .. n
    <3>1. /\ f[x] \in Nat /\ 1 <= f[x] /\ f[x] <= n
          /\ f[m] \in Nat /\ 1 <= f[m] /\ f[m] <= n
      BY <1>2
    <3>. QED
      BY <1>2, <1>3, <3>1
  <2>. QED
    BY <2>1
<1>5. \A x, y \in S : key[x] <= key[y] <=> g[x] <= g[y]
  <2>1. ASSUME NEW x \in S, NEW y \in S
        PROVE  key[x] <= key[y] <=> g[x] <= g[y]
    <3>1. /\ f[x] \in Nat /\ f[y] \in Nat /\ f[m] \in Nat
          /\ x # m => f[x] # f[m]
          /\ y # m => f[y] # f[m]
          /\ x # y => f[x] # f[y]
      BY <1>2
    <3>. QED
      BY <1>3, <3>1
  <2>. QED
    BY <2>1
<1>6. \A x, y \in S : g[x] = g[y] => x = y
  <2>1. ASSUME NEW x \in S, NEW y \in S, g[x] = g[y]
        PROVE  x = y
    <3>1. /\ f[x] \in Nat /\ f[y] \in Nat /\ f[m] \in Nat
          /\ x # m => f[x] # f[m]
          /\ y # m => f[y] # f[m]
          /\ x # y => f[x] # f[y]
      BY <1>2
    <3>. QED
      BY <1>3, <2>1, <3>1
  <2>. QED
    BY <2>1
<1>7. g \in [S -> 1 .. Cardinality(S)]
  BY <1>1, <1>4
<1>8. Moved(f, m, t) = Ranked(key) /\ DOMAIN key = S /\ DOMAIN g = S
  BY <1>2 DEF Moved
<1>9. g[k] = IF k = m THEN t
             ELSE IF f[m] < f[k] /\ f[k] <= t THEN f[k] - 1
             ELSE IF t <= f[k] /\ f[k] < f[m] THEN f[k] + 1
             ELSE f[k]
  OBVIOUS
<1>. HIDE DEF key, g
<1>10. g \in OrderOf(S)
  BY <1>6, <1>7, <1>8 DEF OrderOf, OneToOne
<1>11. Ranked(key) = Ranked(g)
  BY <1>5, <1>8, SameRanks
<1>12. Ranked(g) = g
  BY <1>10, OrderIsItsRanking
<1>. QED
  BY <1>8, <1>9, <1>11, <1>12

\* r is the Vec v without its position a: the mods behind it move up.
Closed(r, v, a) ==
  /\ Len(r) = Len(v) - 1
  /\ \A i \in 1 .. Len(v) - 1 : r[i] = IF i < a THEN v[i] ELSE v[i + 1]

\* r is the Vec s with m put at position t: the mods from there on move down.
Opened(r, s, t, m) ==
  /\ Len(r) = Len(s) + 1
  /\ \A i \in 1 .. Len(s) + 1 :
       r[i] = IF i < t THEN s[i] ELSE IF i = t THEN m ELSE s[i - 1]

\* No mod twice.
Distinct(v) == \A i, j \in DOMAIN v : v[i] = v[j] => i = j

\* What filter leaves of a Vec.
LEMMA FilteredPlaces ==
  ASSUME NEW S, NEW v \in Seq(S), NEW a \in 1 .. Len(v),
         Distinct(v), NEW r, r = Vecs!Filtered(v, v[a])
  PROVE  r \in Seq(S) /\ Closed(r, v, a)
<1>1. Len(v) \in Nat /\ DOMAIN v = 1 .. Len(v) /\ \A i \in 1 .. Len(v) : v[i] \in S
  BY LenProperties
<1>2. (CHOOSE i \in DOMAIN v : v[i] = v[a]) = a
  BY <1>1 DEF Distinct
<1>3. v[a] \in Vecs!ToSet(v)
  BY <1>1 DEF Vecs!ToSet
<1>4. r = SubSeq(v, 1, a - 1) \o SubSeq(v, a + 1, Len(v))
  BY <1>2, <1>3 DEF Vecs!Filtered, Vecs!RemoveAt
<1>5. PICK head, tail : head = SubSeq(v, 1, a - 1) /\ tail = SubSeq(v, a + 1, Len(v))
  OBVIOUS
<1>6. /\ head \in Seq(S) /\ Len(head) = a - 1
      /\ \A i \in 1 .. a - 1 : head[i] = v[i]
  <2>1. \A i \in 1 .. a - 1 : v[i] \in S
    BY <1>1
  <2>2. /\ head \in Seq(S)
        /\ Len(head) = IF 1 <= a - 1 THEN a - 1 - 1 + 1 ELSE 0
        /\ \A i \in 1 .. a - 1 - 1 + 1 : head[i] = v[1 + i - 1]
    BY <1>1, <1>5, <2>1, SubSeqProperties
  <2>. QED
    BY <1>1, <2>2
<1>7. /\ tail \in Seq(S) /\ Len(tail) = Len(v) - a
      /\ \A i \in 1 .. Len(v) - a : tail[i] = v[a + i]
  <2>1. \A i \in a + 1 .. Len(v) : v[i] \in S
    BY <1>1
  <2>2. /\ tail \in Seq(S)
        /\ Len(tail) = IF a + 1 <= Len(v) THEN Len(v) - (a + 1) + 1 ELSE 0
        /\ \A i \in 1 .. Len(v) - (a + 1) + 1 : tail[i] = v[a + 1 + i - 1]
    BY <1>1, <1>5, <2>1, SubSeqProperties
  <2>3. ASSUME NEW i \in 1 .. Len(v) - a PROVE tail[i] = v[a + i]
    <3>1. i \in 1 .. Len(v) - (a + 1) + 1 /\ a + 1 + i - 1 = a + i
      BY <1>1
    <3>2. tail[i] = v[a + 1 + i - 1]
      BY <2>2, <3>1
    <3>. QED
      BY <3>1, <3>2
  <2>4. Len(tail) = Len(v) - a
    <3>1. Len(tail) = IF a + 1 <= Len(v) THEN Len(v) - (a + 1) + 1 ELSE 0
      BY <2>2
    <3>2. Len(v) \in Int /\ a \in Int /\ a <= Len(v)
      BY <1>1
    <3>. QED
      BY <3>1, <3>2
  <2>. QED
    BY <2>2, <2>3, <2>4
<1>8. /\ r \in Seq(S) /\ Len(r) = Len(head) + Len(tail)
      /\ \A i \in 1 .. Len(head) + Len(tail) :
           r[i] = IF i <= Len(head) THEN head[i] ELSE tail[i - Len(head)]
  <2>1. r = head \o tail
    BY <1>4, <1>5
  <2>2. head \in Seq(S) /\ tail \in Seq(S)
    BY <1>6, <1>7
  <2>. QED
    BY <2>1, <2>2, ConcatProperties
<1>9. ASSUME NEW i \in 1 .. Len(v) - 1
      PROVE  r[i] = IF i < a THEN v[i] ELSE v[i + 1]
  <2>0. /\ Len(v) \in Int /\ a \in Int /\ 1 <= a /\ a <= Len(v)
        /\ i \in Int /\ 1 <= i /\ i <= Len(v) - 1
    BY <1>1
  <2>1. Len(head) + Len(tail) = Len(v) - 1
    BY <1>6, <1>7, <2>0
  <2>2. r[i] = IF i <= Len(head) THEN head[i] ELSE tail[i - Len(head)]
    BY <1>8, <2>1
  <2>3. r[i] = IF i <= a - 1 THEN head[i] ELSE tail[i - (a - 1)]
    BY <1>6, <2>2
  <2>4. CASE i < a
    <3>1. i <= a - 1 /\ i \in 1 .. a - 1
      BY <2>0, <2>4
    <3>. QED
      BY <1>6, <2>3, <2>4, <3>1
  <2>5. CASE ~ (i < a)
    <3>1. ~ (i <= a - 1) /\ i - (a - 1) \in 1 .. Len(v) - a /\ a + (i - (a - 1)) = i + 1
      BY <2>0, <2>5
    <3>2. tail[i - (a - 1)] = v[a + (i - (a - 1))]
      BY <1>7, <3>1
    <3>. QED
      BY <2>3, <2>5, <3>1, <3>2
  <2>. QED
    BY <2>4, <2>5
<1>10. Len(r) = Len(v) - 1
  BY <1>1, <1>6, <1>7, <1>8
<1>. QED
  BY <1>8, <1>9, <1>10 DEF Closed

\* What insert makes of a Vec.
LEMMA InsertedPlaces ==
  ASSUME NEW S, NEW s \in Seq(S), NEW m \in S, NEW t \in 1 .. Len(s) + 1,
         NEW r, r = Vecs!InsertAt(s, t, m)
  PROVE  r \in Seq(S) /\ Opened(r, s, t, m)
<1>1. Len(s) \in Nat /\ DOMAIN s = 1 .. Len(s) /\ \A i \in 1 .. Len(s) : s[i] \in S
  BY LenProperties
<1>2. PICK head, tail, one :
        head = SubSeq(s, 1, t - 1) /\ tail = SubSeq(s, t, Len(s)) /\ one = <<m>>
  OBVIOUS
<1>3. r = (head \o one) \o tail
  BY <1>2 DEF Vecs!InsertAt
<1>4. /\ head \in Seq(S) /\ Len(head) = t - 1
      /\ \A i \in 1 .. t - 1 : head[i] = s[i]
  <2>1. \A i \in 1 .. t - 1 : s[i] \in S
    BY <1>1
  <2>2. /\ head \in Seq(S)
        /\ Len(head) = IF 1 <= t - 1 THEN t - 1 - 1 + 1 ELSE 0
        /\ \A i \in 1 .. t - 1 - 1 + 1 : head[i] = s[1 + i - 1]
    BY <1>1, <1>2, <2>1, SubSeqProperties
  <2>. QED
    BY <1>1, <2>2
<1>5. /\ tail \in Seq(S) /\ Len(tail) = Len(s) - t + 1
      /\ \A i \in 1 .. Len(s) - t + 1 : tail[i] = s[t + i - 1]
  <2>1. \A i \in t .. Len(s) : s[i] \in S
    BY <1>1
  <2>2. /\ tail \in Seq(S)
        /\ Len(tail) = IF t <= Len(s) THEN Len(s) - t + 1 ELSE 0
        /\ \A i \in 1 .. Len(s) - t + 1 : tail[i] = s[t + i - 1]
    BY <1>1, <1>2, <2>1, SubSeqProperties
  <2>. QED
    BY <1>1, <2>2
<1>6. one \in Seq(S) /\ Len(one) = 1 /\ one[1] = m
  BY <1>2
<1>7. PICK front : front = head \o one
  OBVIOUS
<1>8. /\ front \in Seq(S) /\ Len(front) = t
      /\ \A i \in 1 .. t : front[i] = IF i < t THEN s[i] ELSE m
  <2>1. /\ front \in Seq(S) /\ Len(front) = Len(head) + Len(one)
        /\ \A i \in 1 .. Len(head) + Len(one) :
             front[i] = IF i <= Len(head) THEN head[i] ELSE one[i - Len(head)]
    BY <1>4, <1>6, <1>7, ConcatProperties
  <2>2. Len(front) = t
    BY <1>1, <1>4, <1>6, <2>1
  <2>3. ASSUME NEW i \in 1 .. t PROVE front[i] = IF i < t THEN s[i] ELSE m
    <3>1. CASE i < t
      BY <1>1, <1>4, <1>6, <2>1, <3>1
    <3>2. CASE ~ (i < t)
      <4>1. i = t /\ i - Len(head) = 1
        BY <1>1, <1>4, <3>2
      <4>. QED
        BY <1>1, <1>4, <1>6, <2>1, <3>2, <4>1
    <3>. QED
      BY <3>1, <3>2
  <2>. QED
    BY <2>1, <2>2, <2>3
<1>9. /\ r \in Seq(S) /\ Len(r) = Len(front) + Len(tail)
      /\ \A i \in 1 .. Len(front) + Len(tail) :
           r[i] = IF i <= Len(front) THEN front[i] ELSE tail[i - Len(front)]
  <2>1. r = front \o tail
    BY <1>3, <1>7
  <2>2. front \in Seq(S) /\ tail \in Seq(S)
    BY <1>5, <1>8
  <2>. QED
    BY <2>1, <2>2, ConcatProperties
<1>10. ASSUME NEW i \in 1 .. Len(s) + 1
       PROVE  r[i] = IF i < t THEN s[i] ELSE IF i = t THEN m ELSE s[i - 1]
  <2>1. CASE i <= t
    BY <1>1, <1>5, <1>8, <1>9, <2>1
  <2>2. CASE ~ (i <= t)
    <3>1. r[i] = tail[i - t] /\ i - t \in 1 .. Len(s) - t + 1
      BY <1>1, <1>5, <1>8, <1>9, <2>2
    <3>2. tail[i - t] = s[t + (i - t) - 1] /\ t + (i - t) - 1 = i - 1
      BY <1>1, <1>5, <3>1
    <3>. QED
      BY <1>1, <2>2, <3>1, <3>2
  <2>. QED
    BY <2>1, <2>2
<1>11. Len(r) = Len(s) + 1
  BY <1>1, <1>5, <1>8, <1>9
<1>. QED
  BY <1>9, <1>10, <1>11 DEF Opened

\* remove_mod_from_profile: re-numbering the mods that are kept is filtering the
\* Vec.
LEMMA WithoutIsFiltered ==
  ASSUME NEW S, IsFiniteSet(S), NEW f \in OrderOf(S), NEW m \in S
  PROVE  VecOf(Without(f, m)) = Vecs!Filtered(VecOf(f), m)
<1>1. PICK v : v = VecOf(f)
  OBVIOUS
<1>2. PICK n : n = Cardinality(S)
  OBVIOUS
<1>3. IsVecOf(v, S, f)
  BY <1>1, VecOfOrder
<1>4. /\ n \in Nat /\ v \in Seq(S) /\ Len(v) = n /\ DOMAIN v = 1 .. n
      /\ \A i, j \in DOMAIN v : v[i] = v[j] => i = j
      /\ f[m] \in 1 .. n /\ v[f[m]] = m
  BY <1>2, <1>3, VecFacts
<1>5. \A i \in 1 .. n : v[i] \in S /\ f[v[i]] = i
  BY <1>2, <1>3 DEF IsVecOf
<1>6. PICK a : a = f[m]
  OBVIOUS
<1>7. PICK r : r = Vecs!Filtered(v, m)
  OBVIOUS
<1>8. /\ r \in Seq(S) /\ Len(r) = n - 1
      /\ \A i \in 1 .. n - 1 : r[i] = IF i < a THEN v[i] ELSE v[i + 1]
  <2>1. a \in 1 .. Len(v) /\ r = Vecs!Filtered(v, v[a]) /\ v \in Seq(S)
    BY <1>4, <1>6, <1>7
  <2>2. Distinct(v)
    BY <1>4 DEF Distinct
  <2>3. r \in Seq(S) /\ Closed(r, v, a)
    BY <2>1, <2>2, FilteredPlaces
  <2>. QED
    BY <1>4, <2>3 DEF Closed
<1>9. PICK g : g = Without(f, m)
  OBVIOUS
<1>10. g \in OrderOf(S \ {m}) /\ IsFiniteSet(S \ {m}) /\ Cardinality(S \ {m}) = n - 1
  BY <1>2, <1>9, WithoutIsOrder, FS_RemoveElement
<1>11. ASSUME NEW i \in 1 .. n - 1
       PROVE  r[i] \in S \ {m} /\ g[r[i]] = i
  <2>1. PICK j \in 1 .. n : j = (IF i < a THEN i ELSE i + 1) /\ r[i] = v[j]
    BY <1>4, <1>8
  <2>2. j # a /\ f[v[j]] = j /\ v[j] \in S /\ v[j] # m
    BY <1>4, <1>5, <1>6, <2>1
  <2>3. g[v[j]] = IF f[v[j]] < f[m] THEN f[v[j]] ELSE f[v[j]] - 1
    BY <1>9, <2>2, WithoutPlaces
  <2>4. g[v[j]] = i
    BY <1>4, <1>6, <2>1, <2>2, <2>3
  <2>. QED
    BY <2>1, <2>2, <2>4
<1>12. r \in [1 .. n - 1 -> S \ {m}]
  BY <1>4, <1>8, <1>11
<1>13. IsVecOf(r, S \ {m}, g)
  BY <1>10, <1>11, <1>12 DEF IsVecOf
<1>14. IsVecOf(VecOf(g), S \ {m}, g)
  BY <1>10, VecOfOrder
<1>15. VecOf(g) = r
  BY <1>10, <1>13, <1>14, VecIsUnique
<1>. QED
  BY <1>1, <1>7, <1>9, <1>15

\* move_mod_to: the positions it computes are those of remove and insert.
LEMMA MovedIsMovedTo ==
  ASSUME NEW S, IsFiniteSet(S), NEW f \in OrderOf(S), NEW m \in S,
         NEW t \in 1 .. Cardinality(S)
  PROVE  VecOf(Moved(f, m, t)) = Vecs!MovedTo(VecOf(f), m, t)
<1>1. PICK v : v = VecOf(f)
  OBVIOUS
<1>2. PICK n : n = Cardinality(S)
  OBVIOUS
<1>3. IsVecOf(v, S, f)
  BY <1>1, VecOfOrder
<1>4. /\ n \in Nat /\ v \in Seq(S) /\ Len(v) = n /\ DOMAIN v = 1 .. n
      /\ \A i, j \in DOMAIN v : v[i] = v[j] => i = j
      /\ f[m] \in 1 .. n /\ v[f[m]] = m /\ t \in 1 .. n
  BY <1>2, <1>3, VecFacts
<1>5. \A i \in 1 .. n : v[i] \in S /\ f[v[i]] = i
  BY <1>2, <1>3 DEF IsVecOf
<1>6. PICK a : a = f[m]
  OBVIOUS
<1>7. PICK s : s = Vecs!Filtered(v, m)
  OBVIOUS
<1>8. /\ s \in Seq(S) /\ Len(s) = n - 1
      /\ \A i \in 1 .. n - 1 : s[i] = IF i < a THEN v[i] ELSE v[i + 1]
  <2>1. a \in 1 .. Len(v) /\ s = Vecs!Filtered(v, v[a]) /\ v \in Seq(S)
    BY <1>4, <1>6, <1>7
  <2>2. Distinct(v)
    BY <1>4 DEF Distinct
  <2>3. s \in Seq(S) /\ Closed(s, v, a)
    BY <2>1, <2>2, FilteredPlaces
  <2>. QED
    BY <1>4, <2>3 DEF Closed
<1>9. PICK r : r = Vecs!InsertAt(s, t, m)
  OBVIOUS
<1>10. /\ r \in Seq(S) /\ Len(r) = n
       /\ \A i \in 1 .. n : r[i] = IF i < t THEN s[i] ELSE IF i = t THEN m ELSE s[i - 1]
  <2>1. t \in 1 .. Len(s) + 1 /\ Len(s) + 1 = n
    BY <1>4, <1>8
  <2>s. s \in Seq(S)
    BY <1>8
  <2>2. r \in Seq(S) /\ Opened(r, s, t, m)
    BY <1>9, <2>1, <2>s, InsertedPlaces
  <2>. QED
    BY <2>1, <2>2 DEF Opened
<1>11. PICK g : g = Moved(f, m, t)
  OBVIOUS
<1>12. g \in OrderOf(S)
  BY <1>11, MovedIsOrder
<1>13. ASSUME NEW i \in 1 .. n
       PROVE  r[i] \in S /\ g[r[i]] = i
  <2>1. CASE i = t
    <3>1. r[i] = m
      BY <1>4, <1>10, <2>1
    <3>2. g[m] = t
      BY <1>11, MovedPlaces
    <3>. QED
      BY <2>1, <3>1, <3>2
  <2>2. CASE i # t
    <3>1. PICK j \in 1 .. n - 1 : j = (IF i < t THEN i ELSE i - 1) /\ r[i] = s[j]
      BY <1>4, <1>10, <2>2
    <3>2. PICK h \in 1 .. n : h = (IF j < a THEN j ELSE j + 1) /\ s[j] = v[h]
      BY <1>4, <1>8
    <3>3. h # a /\ f[v[h]] = h /\ v[h] \in S /\ v[h] # m
      BY <1>4, <1>5, <1>6, <3>2
    <3>4. PICK x \in S : x = v[h]
      BY <3>3
    <3>5. g[x] = IF x = m THEN t
                 ELSE IF f[m] < f[x] /\ f[x] <= t THEN f[x] - 1
                 ELSE IF t <= f[x] /\ f[x] < f[m] THEN f[x] + 1
                 ELSE f[x]
      BY <1>11, MovedPlaces
    <3>6. x # m /\ f[x] = h
      BY <3>3, <3>4
    <3>7. g[x] = IF a < h /\ h <= t THEN h - 1
                 ELSE IF t <= h /\ h < a THEN h + 1 ELSE h
      BY <1>6, <3>5, <3>6
    <3>8. g[x] = i
      BY <1>4, <1>6, <2>2, <3>1, <3>2, <3>3, <3>7
    <3>. QED
      BY <3>1, <3>2, <3>4, <3>8
  <2>. QED
    BY <2>1, <2>2
<1>14. r \in [1 .. n -> S]
  BY <1>4, <1>10, <1>13
<1>15. IsVecOf(r, S, g)
  BY <1>2, <1>13, <1>14 DEF IsVecOf
<1>16. IsVecOf(VecOf(g), S, g)
  BY <1>12, VecOfOrder
<1>17. VecOf(g) = r
  BY <1>12, <1>15, <1>16, VecIsUnique
<1>. QED
  BY <1>1, <1>7, <1>9, <1>11, <1>17 DEF Vecs!MovedTo

\* For every list and every number a caller may pass, the arithmetic on positions
\* is the arithmetic on the Vec, whatever gaps delete_mod left and whatever other
\* connections do.
THEOREM PositionsAreRight == Spec => []PositionsAreVecs
<1>1. ASSUME IInv, NEW p \in ProfileIds
      PROVE  LET order == ListOf(p)  vec == VecOf(order)  count == Len(vec) IN
             \A m \in ModsIn(p) :
               /\ VecOf(Without(order, m)) = Vecs!Filtered(vec, m)
               /\ \A n \in 0 .. count + 1 :
                    VecOf(Moved(order, m, Clamped(n, count)))
                      = Vecs!MovedTo(vec, m, Clamped(n, count))
  <2>1. PICK f, S, v, count :
          f = ListOf(p) /\ S = ModsIn(p) /\ v = VecOf(f) /\ count = Len(v)
    OBVIOUS
  <2>2. f \in OrderOf(S) /\ IsFiniteSet(S)
    BY <1>1, <2>1, ListOfIsOrder, OrdersOfMods DEF IInv
  <2>3. count = Cardinality(S) /\ count \in Nat
    BY <2>1, <2>2, VecOfOrder, VecFacts
  <2>4. ASSUME NEW m \in S
        PROVE  VecOf(Without(f, m)) = Vecs!Filtered(v, m)
    BY <2>1, <2>2, WithoutIsFiltered
  <2>5. ASSUME NEW m \in S, NEW n \in 0 .. count + 1
        PROVE  VecOf(Moved(f, m, Clamped(n, count))) = Vecs!MovedTo(v, m, Clamped(n, count))
    <3>1. count >= 1
      BY <2>2, <2>3, FS_EmptySet
    <3>2. Clamped(n, count) \in 1 .. Cardinality(S)
      BY <2>3, <3>1 DEF Clamped
    <3>. QED
      BY <2>1, <2>2, <3>2, MovedIsMovedTo
  <2>. QED
    BY <2>1, <2>4, <2>5
<1>2. IInv => PositionsAreVecs
  BY <1>1 DEF PositionsAreVecs
<1>. QED
  BY <1>2, InvHolds, PTL

-----------------------------------------------------------------------------
\* The key of a profile: the priorities of its rows.
KeyOf(p) == [m \in ModsIn(p) |-> prio[p][m]]

\* The key as the lemmas on sorting take it.
LEMMA KeyFacts ==
  ASSUME TablesInv, NEW p \in ProfileIds
  PROVE  /\ ModsIn(p) \in SUBSET ModIds /\ IsFiniteSet(ModsIn(p))
         /\ KeyOf(p) \in [ModsIn(p) -> Int] /\ OneToOne(KeyOf(p))
         /\ \A m \in ModsIn(p) : KeyOf(p)[m] = prio[p][m]
         /\ ListOf(p) = Ranked(KeyOf(p)) /\ Lists[p] = VecOf(KeyOf(p))
<1>1. ModsIn(p) \in SUBSET ModIds /\ IsFiniteSet(ModsIn(p))
  BY OrdersOfMods, ModsIn(p) \in SUBSET ModIds DEF ModsIn
<1>2. KeyOf(p) \in [ModsIn(p) -> Int] /\ OneToOne(KeyOf(p))
  BY <1>1 DEF KeyOf, OneToOne, TablesInv, TablesTypeOK, PrioritiesUnique
<1>. QED
  BY <1>1, <1>2 DEF KeyOf, ListOf, Lists

\* The Vec a caller sees: the mods of the profile, sorted and each once.
LEMMA ListIsVec ==
  ASSUME TablesInv, NEW p \in ProfileIds, NEW v, v = Lists[p]
  PROVE  /\ Sorts(v, ModsIn(p), KeyOf(p)) /\ v = VecOf(ListOf(p))
         /\ IsVecOf(v, ModsIn(p), ListOf(p))
         /\ Distinct(v) /\ Vecs!ToSet(v) = ModsIn(p)
         /\ v \in Seq(ModsIn(p)) /\ Len(v) = Cardinality(ModsIn(p)) /\ Len(v) \in Nat
<1>1. PICK S, key, f : S = ModsIn(p) /\ key = KeyOf(p) /\ f = ListOf(p)
  OBVIOUS
<1>2. /\ IsFiniteSet(S) /\ key \in [S -> Int] /\ OneToOne(key)
      /\ f = Ranked(key) /\ v = VecOf(key)
  BY <1>1, KeyFacts
<1>3. Sorts(v, S, key) /\ IsVecOf(v, S, f)
  BY <1>2, VecOfKey
<1>4. f \in OrderOf(S)
  BY <1>2, RankedIsOrder
<1>5. v = VecOf(f)
  BY <1>2, <1>3, <1>4, VecOfOrder, VecIsUnique
<1>6. /\ Cardinality(S) \in Nat /\ v \in Seq(S) /\ Len(v) = Cardinality(S)
      /\ \A i, j \in DOMAIN v : v[i] = v[j] => i = j
      /\ {v[i] : i \in DOMAIN v} = S
  BY <1>2, <1>3, <1>4, VecFacts
<1>. QED
  BY <1>1, <1>3, <1>5, <1>6 DEF Distinct, Vecs!ToSet

\* A statement on the rows of one profile changes its Vec alone.
LEMMA OneListChanges ==
  ASSUME NEW p \in ProfileIds, NEW v, v = Lists'[p],
         \A q \in ProfileIds : q # p => prio'[q] = prio[q]
  PROVE  Vecs!Becomes(p, v)
<1>1. \A q \in ProfileIds : q # p => Lists'[q] = Lists[q]
  BY DEF Lists, ModsIn
<1>2. /\ Lists = [q \in ProfileIds |-> Lists[q]]
      /\ Lists' = [q \in ProfileIds |-> Lists'[q]]
  BY DEF Lists
<1>3. Lists' = [Lists EXCEPT ![p] = v]
  BY <1>1, <1>2
<1>. QED
  BY <1>3 DEF Vecs!Becomes

\* The INSERT of an add: the next priority sorts last.
LEMMA InsertAddsLast ==
  ASSUME TablesInv, NEW p \in ProfileIds, NEW m \in ModIds, NEW n \in Nat, n # 0,
         IsNextPriority(p, n), InsertRow(p, m, n)
  PROVE  Vecs!AddLast(p, m)
<1>1. PICK S, key, v : S = ModsIn(p) /\ key = KeyOf(p) /\ v = Lists[p]
  OBVIOUS
<1>2. /\ S \in SUBSET ModIds /\ IsFiniteSet(S)
      /\ key \in [S -> Int] /\ OneToOne(key) /\ \A x \in S : key[x] = prio[p][x]
      /\ Sorts(v, S, key) /\ Vecs!ToSet(v) = S /\ v \in Seq(S) /\ Len(v) = Cardinality(S)
      /\ Len(v) \in Nat
  BY <1>1, KeyFacts, ListIsVec
<1>3. m \notin S /\ \A x \in S : key[x] < n
  BY <1>1, <1>2 DEF InsertRow, RowIsNew, IsNextPriority
<1>4. \A q \in ProfileIds, x \in ModIds :
        prio'[q][x] = IF q = p /\ x = m THEN n ELSE prio[q][x]
  BY DEF InsertRow, TablesInv, TablesTypeOK
<1>5. \A q \in ProfileIds : q # p => prio'[q] = prio[q]
  BY DEF InsertRow, TablesInv, TablesTypeOK
<1>6. PICK T : T = S \cup {m}
  OBVIOUS
<1>7. IsFiniteSet(T) /\ Cardinality(T) = Len(v) + 1
  BY <1>2, <1>3, <1>6, FS_AddElement
<1>8. ModsIn(p)' = T
  BY <1>1, <1>4, <1>6 DEF ModsIn
<1>9. PICK keys : keys = [x \in T |-> IF x = m THEN n ELSE key[x]]
  OBVIOUS
<1>10. KeyOf(p)' = keys
  <2>1. \A x \in T : prio'[p][x] = IF x = m THEN n ELSE key[x]
    BY <1>2, <1>4, <1>6
  <2>. QED
    BY <1>8, <1>9, <2>1 DEF KeyOf
<1>11. keys \in [T -> Int] /\ OneToOne(keys)
  <2>1. keys \in [T -> Int]
    BY <1>2, <1>6, <1>9
  <2>2. ASSUME NEW x \in T, NEW y \in T, keys[x] = keys[y] PROVE x = y
    <3>1. \A z \in S : key[z] \in Int /\ key[z] < n
      BY <1>2, <1>3
    <3>2. \A y1, y2 \in S : key[y1] = key[y2] => y1 = y2
      BY <1>2 DEF OneToOne
    <3>. QED
      BY <1>6, <1>9, <2>2, <3>1, <3>2
  <2>. QED
    BY <1>9, <2>1, <2>2 DEF OneToOne
<1>12. PICK w : w = Append(v, m)
  OBVIOUS
<1>13. /\ w \in Seq(T) /\ Len(w) = Len(v) + 1
       /\ \A i \in 1 .. Len(v) : w[i] = v[i]
       /\ w[Len(v) + 1] = m
  <2>1. v \in Seq(T) /\ m \in T
    BY <1>2, <1>6, SeqMonotonic
  <2>. QED
    BY <1>12, <2>1, AppendProperties
<1>14. Sorts(w, T, keys)
  <2>1. w \in [1 .. Cardinality(T) -> T]
    BY <1>7, <1>13, LenProperties
  <2>2. \A i \in 1 .. Len(v) : v[i] \in S
    BY <1>2 DEF Sorts
  <2>3. ASSUME NEW i \in 1 .. Cardinality(T), NEW j \in 1 .. Cardinality(T), i < j
        PROVE  keys[w[i]] < keys[w[j]]
    <3>1. i \in 1 .. Len(v) /\ w[i] = v[i] /\ v[i] \in S /\ v[i] # m
      BY <1>2, <1>3, <1>7, <1>13, <2>2, <2>3
    <3>2. keys[w[i]] = key[v[i]]
      BY <1>6, <1>9, <3>1
    <3>3. CASE j = Len(v) + 1
      <4>1. keys[w[j]] = n
        BY <1>6, <1>9, <1>13, <3>3
      <4>. QED
        BY <1>3, <3>1, <3>2, <4>1
    <3>4. CASE j # Len(v) + 1
      <4>1. j \in 1 .. Len(v)
        BY <1>2, <1>7, <3>4
      <4>2. w[j] = v[j] /\ v[j] \in S /\ v[j] # m
        BY <1>3, <1>13, <2>2, <4>1
      <4>3. keys[w[j]] = key[v[j]]
        BY <1>6, <1>9, <4>2
      <4>4. key[v[i]] < key[v[j]]
        BY <1>2, <2>3, <3>1, <4>1 DEF Sorts
      <4>. QED
        BY <3>2, <4>3, <4>4
    <3>. QED
      BY <3>3, <3>4
  <2>. QED
    BY <2>1, <2>3 DEF Sorts
<1>15. w = VecOf(keys)
  BY <1>7, <1>11, <1>14, SortedIsVec
<1>16. w = Lists'[p]
  BY <1>10, <1>15 DEF Lists, KeyOf
<1>17. Vecs!Becomes(p, w)
  BY <1>5, <1>16, OneListChanges
<1>. QED
  BY <1>1, <1>2, <1>3, <1>12, <1>17 DEF Vecs!AddLast

\* replace_all_profile_mods leaves the Vec of the order it is given.
LEMMA ReplaceLeavesOrder ==
  ASSUME TablesInv, NEW p \in ProfileIds, NEW order \in Orders, NEW on,
         ReplaceRows(p, order, on)
  PROVE  Vecs!Becomes(p, VecOf(order))
<1>1. \A q \in ProfileIds : q # p => prio'[q] = prio[q]
  BY DEF ReplaceRows, TablesInv, TablesTypeOK
<1>2. PICK T \in SUBSET ModIds : order \in [T -> 1 .. Cardinality(ModIds)]
  BY DEF Orders
<1>3. \A m \in ModIds : prio'[p][m] = IF m \in T THEN order[m] ELSE 0
  BY <1>2 DEF ReplaceRows, TablesInv, TablesTypeOK
<1>4. \A m \in T : order[m] # 0 /\ m \in ModIds
  BY <1>2
<1>5. ModsIn(p)' = T
  BY <1>3, <1>4 DEF ModsIn
<1>6. [m \in T |-> prio'[p][m]] = order
  BY <1>2, <1>3
<1>7. Lists'[p] = VecOf(order)
  BY <1>5, <1>6 DEF Lists
<1>. QED
  BY <1>1, <1>7, OneListChanges

\* An order of the same mods is a reorder.
LEMMA CommitReorders ==
  ASSUME TablesInv, NEW p \in ProfileIds, NEW order, order \in OrderOf(ModsIn(p)),
         Vecs!Becomes(p, VecOf(order)), NEW v, v = Lists[p], NEW s, s = VecOf(order)
  PROVE  s \in [1 .. Len(v) -> Vecs!ToSet(v)] /\ Vecs!Reordered(p, s)
<1>1. PICK S : S = ModsIn(p)
  OBVIOUS
<1>2. IsFiniteSet(S) /\ Vecs!ToSet(v) = S /\ Len(v) = Cardinality(S)
  BY <1>1, KeyFacts, ListIsVec
<1>3. IsVecOf(s, S, order)
  BY <1>1, <1>2, VecOfOrder
<1>4. /\ \A i, j \in DOMAIN s : s[i] = s[j] => i = j
      /\ {s[i] : i \in DOMAIN s} = S
  BY <1>1, <1>2, <1>3, VecFacts
<1>5. s \in [1 .. Len(v) -> Vecs!ToSet(v)]
  BY <1>2, <1>3 DEF IsVecOf
<1>6. Vecs!ToSet(s) = S /\ Vecs!IsInjective(s)
  BY <1>4 DEF Vecs!ToSet, Vecs!IsInjective
<1>. QED
  BY <1>2, <1>5, <1>6 DEF Vecs!Reordered

\* DELETE FROM mods: every Vec loses the mod, whatever gap its row leaves.
LEMMA DropForgets ==
  ASSUME TablesInv, NEW m \in ModIds, DropMod(m)
  PROVE  Vecs!ForgetMod(m)
<1>1. \A q \in ProfileIds, x \in ModIds : prio'[q][x] = IF x = m THEN 0 ELSE prio[q][x]
  BY DEF DropMod, TablesInv, TablesTypeOK
<1>2. ASSUME NEW p \in ProfileIds
      PROVE  Lists'[p] = Vecs!Filtered(Lists[p], m)
  <2>1. PICK S, key, v : S = ModsIn(p) /\ key = KeyOf(p) /\ v = Lists[p]
    OBVIOUS
  <2>2. /\ S \in SUBSET ModIds /\ IsFiniteSet(S)
        /\ key \in [S -> Int] /\ OneToOne(key) /\ \A x \in S : key[x] = prio[p][x]
        /\ Sorts(v, S, key) /\ Vecs!ToSet(v) = S /\ v \in Seq(S) /\ Len(v) = Cardinality(S)
        /\ Len(v) \in Nat /\ Distinct(v) /\ v = VecOf(key)
    BY <2>1, KeyFacts, ListIsVec
  <2>3. ModsIn(p)' = S \ {m}
    BY <1>1, <2>1 DEF ModsIn
  <2>4. PICK keys : keys = [x \in S \ {m} |-> key[x]]
    OBVIOUS
  <2>5. [x \in S \ {m} |-> prio'[p][x]] = keys
    <3>1. \A x \in S \ {m} : prio'[p][x] = key[x]
      BY <1>1, <2>2
    <3>. QED
      BY <2>4, <3>1
  <2>6. Lists'[p] = VecOf(keys)
    BY <2>3, <2>5 DEF Lists
  <2>7. CASE m \notin S
    <3>1. S \ {m} = S
      BY <2>7
    <3>2. keys = key
      BY <2>2, <2>4, <3>1
    <3>3. Vecs!Filtered(v, m) = v
      BY <2>2, <2>7 DEF Vecs!Filtered
    <3>. QED
      BY <2>1, <2>2, <2>6, <3>2, <3>3
  <2>8. CASE m \in S
    <3>1. v \in [1 .. Len(v) -> S] /\ DOMAIN v = 1 .. Len(v)
      BY <2>2, LenProperties
    <3>2. PICK a \in 1 .. Len(v) : v[a] = m
      BY <2>2, <2>8, <3>1 DEF Vecs!ToSet
    <3>3. PICK r : r = Vecs!Filtered(v, m)
      OBVIOUS
    <3>4. r \in Seq(S) /\ Closed(r, v, a)
      BY <2>2, <3>2, <3>3, FilteredPlaces
    <3>5. /\ Len(r) = Len(v) - 1 /\ r \in [1 .. Len(r) -> S]
          /\ \A i \in 1 .. Len(v) - 1 : r[i] = IF i < a THEN v[i] ELSE v[i + 1]
      BY <3>4, LenProperties DEF Closed
    <3>6. IsFiniteSet(S \ {m}) /\ Cardinality(S \ {m}) = Len(v) - 1
      BY <2>2, <2>8, FS_RemoveElement
    <3>7. ASSUME NEW i \in 1 .. Len(v) - 1
          PROVE  \E h \in 1 .. Len(v) : /\ h = IF i < a THEN i ELSE i + 1
                                        /\ r[i] = v[h] /\ v[h] \in S \ {m}
      <4>1. PICK h \in 1 .. Len(v) : h = (IF i < a THEN i ELSE i + 1) /\ r[i] = v[h]
        BY <2>2, <3>5
      <4>2. h # a
        BY <2>2, <4>1
      <4>3. v[h] # m
        BY <2>2, <3>1, <3>2, <4>1, <4>2 DEF Distinct
      <4>. QED
        BY <3>1, <4>1, <4>3
    <3>8. r \in [1 .. Cardinality(S \ {m}) -> S \ {m}]
      BY <3>5, <3>6, <3>7
    <3>9. ASSUME NEW i \in 1 .. Len(v) - 1, NEW j \in 1 .. Len(v) - 1, i < j
          PROVE  keys[r[i]] < keys[r[j]]
      <4>1. PICK h \in 1 .. Len(v) : /\ h = IF i < a THEN i ELSE i + 1
                                     /\ r[i] = v[h] /\ v[h] \in S \ {m}
        BY <3>7
      <4>2. PICK l \in 1 .. Len(v) : /\ l = IF j < a THEN j ELSE j + 1
                                     /\ r[j] = v[l] /\ v[l] \in S \ {m}
        BY <3>7
      <4>3. h < l
        BY <2>2, <3>9, <4>1, <4>2
      <4>4. key[v[h]] < key[v[l]]
        BY <2>2, <4>3 DEF Sorts
      <4>. QED
        BY <2>4, <4>1, <4>2, <4>4
    <3>10. Sorts(r, S \ {m}, keys)
      BY <3>6, <3>8, <3>9 DEF Sorts
    <3>11. keys \in [S \ {m} -> Int] /\ OneToOne(keys)
      BY <2>2, <2>4 DEF OneToOne
    <3>12. r = VecOf(keys)
      BY <3>6, <3>10, <3>11, SortedIsVec
    <3>. QED
      BY <2>1, <2>6, <3>3, <3>12
  <2>. QED
    BY <2>7, <2>8
<1>3. Lists' = [p \in ProfileIds |-> Lists'[p]]
  BY DEF Lists
<1>. QED
  BY <1>2, <1>3 DEF Vecs!ForgetMod

\* DELETE FROM profiles: the Vec of the profile is empty.
LEMMA DropEmpties ==
  ASSUME TablesInv, NEW p \in ProfileIds, DropProfile(p)
  PROVE  Vecs!Becomes(p, << >>)
<1>1. \A q \in ProfileIds : q # p => prio'[q] = prio[q]
  BY DEF DropProfile, TablesInv, TablesTypeOK
<1>2. ModsIn(p)' = {}
  BY DEF DropProfile, TablesInv, TablesTypeOK, ModsIn
<1>3. PICK keys : keys = [m \in {} |-> prio'[p][m]]
  OBVIOUS
<1>4. Lists'[p] = VecOf(keys)
  BY <1>2, <1>3 DEF Lists
<1>5. << >> = VecOf(keys)
  <2>1. IsFiniteSet({}) /\ Cardinality({}) = 0
    BY FS_EmptySet
  <2>2. keys \in [{} -> Int] /\ OneToOne(keys)
    BY <1>3 DEF OneToOne
  <2>3. Sorts(<< >>, {}, keys)
    BY <2>1 DEF Sorts
  <2>. QED
    BY <2>1, <2>2, <2>3, SortedIsVec
<1>. QED
  BY <1>1, <1>4, <1>5, OneListChanges

-----------------------------------------------------------------------------
\* What the one thread has read for its next write: the priority that sorts
\* last, or the list without the mod to remove.
ReadForVec(k) ==
  /\ k.at = "insert" => IsNextPriority(k.pid, k.next)
  /\ k.at = "replace" /\ k.mid \in ModsIn(k.pid) \ DOMAIN k.list =>
       k.list = Without(ListOf(k.pid), k.mid)

VecInv == \A c \in Conns : ReadForVec(call[c])

\* The only thread goes on, and what it has read is true.
LEMMA ThreadHasRead ==
  ASSUME OneThread, IInv, NEW c \in Conns, NEW k, Continue(c, k), ReadForVec(k)'
  PROVE  VecInv'
<1>1. ASSUME NEW d \in Conns PROVE call'[d] = k
  BY DEF OneThread, IInv, Continue
<1>2. ASSUME NEW d \in Conns PROVE ReadForVec(call[d])'
  BY <1>1, <1>2 DEF ReadForVec
<1>. QED
  BY <1>2 DEF VecInv

\* An add goes on with the next mod of a list, or is over.
LEMMA AfterAddAt ==
  ASSUME NEW k \in Calls, NEW r, r = AfterAdd(k)
  PROVE  r.at \in {"idle", "count"}
<1>1. CASE DOMAIN k.list = {}
  BY <1>1 DEF AfterAdd, Idle
<1>2. CASE DOMAIN k.list # {}
  <2>1. r = [k EXCEPT !.at = "count", !.mid = HeadOf(k.list),
                      !.list = RestOf(k.list), !.next = 0]
    BY <1>2 DEF AfterAdd
  <2>. QED
    BY <2>1 DEF Calls
<1>. QED
  BY <1>1, <1>2

\* Every step of the one thread keeps what it has read true.
LEMMA StepKeepsRead ==
  ASSUME OneThread, IInv, NEW c \in Conns, ModListStep(c) \/ ProfileStep(c)
  PROVE  VecInv'
<1>1. PICK k : k = call[c]
  OBVIOUS
<1>2. k \in Calls /\ k \in GoodCalls /\ TablesInv /\ profiles \subseteq ProfileIds
  BY <1>1 DEF IInv, GoodCalls, TablesInv, TablesTypeOK
<1>3. ASSUME NEW q, Continue(c, q), q.at \notin {"insert", "replace"}
      PROVE  VecInv'
  BY <1>3, ThreadHasRead DEF ReadForVec
<1>4. ASSUME Return(c) PROVE VecInv'
  BY <1>3, <1>4 DEF Return, Idle
<1>5. CASE \/ InsertRefused(c) \/ ReplaceAll(c) \/ ReplaceRefused(c)
           \/ InsertModRefused(c) \/ Abort(c) \/ CommitActive(c) \/ CommitDelete(c)
           \/ InsertNameRefused(c)
  BY <1>4, <1>5 DEF InsertRefused, ReplaceAll, ReplaceRefused, InsertModRefused, Abort,
     CommitActive, CommitDelete, InsertNameRefused
<1>6. CASE SetModEnabled(c) \/ DeleteMod(c) \/ CreateProfile(c) \/ DeleteRow(c)
  <2>1. call[c].at = "idle" /\ UNCHANGED call
    BY <1>6 DEF SetModEnabled, DeleteMod, CreateProfile, DeleteRow
  <2>2. \A d \in Conns : call'[d].at = "idle"
    BY <2>1 DEF OneThread
  <2>. QED
    BY <2>2 DEF VecInv, ReadForVec
<1>7. CASE AddMod(c) \/ InstallMod(c) \/ InsertMod(c)
  <2>1. \/ \E p, m : Continue(c, [Idle EXCEPT !.at = "count", !.pid = p, !.mid = m])
        \/ \E m : Continue(c, [Idle EXCEPT !.at = "readActive", !.mid = m])
        \/ \E s : Continue(c, [Idle EXCEPT !.at = "insertMod", !.key = s])
    BY <1>7 DEF AddMod, InstallMod, InsertMod, Begin
  <2>2. /\ \A p, m : [Idle EXCEPT !.at = "count", !.pid = p, !.mid = m].at = "count"
        /\ \A m : [Idle EXCEPT !.at = "readActive", !.mid = m].at = "readActive"
        /\ \A s : [Idle EXCEPT !.at = "insertMod", !.key = s].at = "insertMod"
    BY DEF Idle
  <2>3. ASSUME NEW p, NEW m, Continue(c, [Idle EXCEPT !.at = "count", !.pid = p, !.mid = m])
        PROVE  VecInv'
    BY <1>3, <2>2, <2>3
  <2>4. ASSUME NEW m, Continue(c, [Idle EXCEPT !.at = "readActive", !.mid = m])
        PROVE  VecInv'
    BY <1>3, <2>2, <2>4
  <2>5. ASSUME NEW s, Continue(c, [Idle EXCEPT !.at = "insertMod", !.key = s])
        PROVE  VecInv'
    BY <1>3, <2>2, <2>5
  <2>. QED
    BY <2>1, <2>3, <2>4, <2>5
<1>8. CASE ReadActive(c)
  <2>1. Return(c) \/ \E p : Continue(c, [k EXCEPT !.at = "count", !.pid = p])
    BY <1>1, <1>8 DEF ReadActive
  <2>2. \A p : [k EXCEPT !.at = "count", !.pid = p].at = "count"
    BY <1>2 DEF Calls
  <2>. QED
    BY <1>3, <1>4, <2>1, <2>2
<1>9. CASE SetActive(c) \/ DeleteProfile(c) \/ EnsureDefault(c) \/ InsertDefault(c)
  <2>1. \/ \E p : Continue(c, [Idle EXCEPT !.at = "setActive", !.pid = p])
        \/ \E p : Continue(c, [Idle EXCEPT !.at = "delete", !.pid = p])
        \/ \E p : Continue(c, [Idle EXCEPT !.at = "activate", !.pid = p])
        \/ \E n : Continue(c, [Idle EXCEPT !.at = "ensureInsert", !.key = n])
    BY <1>9 DEF SetActive, DeleteProfile, EnsureDefault, InsertDefault, Begin
  <2>2. /\ \A p : [Idle EXCEPT !.at = "setActive", !.pid = p].at = "setActive"
        /\ \A p : [Idle EXCEPT !.at = "delete", !.pid = p].at = "delete"
        /\ \A p : [Idle EXCEPT !.at = "activate", !.pid = p].at = "activate"
        /\ \A n : [Idle EXCEPT !.at = "ensureInsert", !.key = n].at = "ensureInsert"
    BY DEF Idle
  <2>3. PICK q : /\ Continue(c, q)
                 /\ q.at \in {"setActive", "delete", "ensureInsert", "activate"}
    BY <2>1, <2>2
  <2>. QED
    BY <1>3, <2>3
<1>c. CASE CloneProfile(c)
  <2>1. PICK s, n : Continue(c, [Idle EXCEPT !.at = "cloneInsert", !.src = s, !.key = n])
    BY <1>c DEF CloneProfile, Begin
  <2>. QED
    BY <1>3, <2>1 DEF Idle
<1>10. CASE ActivateDefault(c) \/ InsertClone(c)
  <2>1. \/ Return(c) \/ Continue(c, [k EXCEPT !.at = "setActive"])
        \/ \E p : Continue(c, [k EXCEPT !.at = "cloneList", !.pid = p])
    BY <1>1, <1>10 DEF ActivateDefault, InsertClone, Return
  <2>2. /\ [k EXCEPT !.at = "setActive"].at = "setActive"
        /\ \A p : [k EXCEPT !.at = "cloneList", !.pid = p].at = "cloneList"
    BY <1>2 DEF Calls
  <2>. QED
    BY <1>3, <1>4, <2>1, <2>2
<1>11. CASE CountRow(c) \/ InsertProfileMod(c) \/ ListSource(c)
  <2>1. PICK r : r = AfterAdd(k)
    OBVIOUS
  <2>2. r.at \in {"idle", "count"} /\ [k EXCEPT !.at = "max"].at = "max"
    BY <1>2, <2>1, AfterAddAt DEF Calls
  <2>3. CASE CountRow(c) \/ InsertProfileMod(c)
    <3>1. Continue(c, r) \/ Continue(c, [k EXCEPT !.at = "max"])
      BY <1>1, <2>1, <2>3 DEF CountRow, InsertProfileMod
    <3>. QED
      BY <1>3, <2>2, <3>1
  <2>4. CASE ListSource(c)
    <3>1. k.src \in ProfileIds
      BY <1>1, <1>2, <2>4 DEF ListSource, GoodCalls
    <3>2. ListOf(k.src) \in Orders
      BY <1>2, <3>1, ListOfIsOrder, OrdersOfMods
    <3>3. PICK q : q = [k EXCEPT !.list = ListOf(k.src)]
      OBVIOUS
    <3>4. q \in Calls
      BY <1>2, <3>2, <3>3 DEF Calls
    <3>5. PICK t : t = AfterAdd(q)
      OBVIOUS
    <3>6. Continue(c, t) /\ t.at \in {"idle", "count"}
      BY <1>1, <2>4, <3>3, <3>4, <3>5, AfterAddAt DEF ListSource
    <3>. QED
      BY <1>3, <3>6
  <2>. QED
    BY <1>11, <2>3, <2>4
<1>12. CASE ReadMaxPriority(c)
  <2>1. PICK n : IsNextPriority(k.pid, n) /\ Continue(c, [k EXCEPT !.at = "insert", !.next = n])
    BY <1>1, <1>12 DEF ReadMaxPriority
  <2>2. PICK q : q = [k EXCEPT !.at = "insert", !.next = n]
    OBVIOUS
  <2>3. q.at = "insert" /\ q.pid = k.pid /\ q.next = n
    BY <1>2, <2>2 DEF Calls
  <2>4. prio' = prio
    BY <1>12 DEF ReadMaxPriority, tables
  <2>5. ReadForVec(q)'
    BY <2>1, <2>3, <2>4 DEF ReadForVec, IsNextPriority, ModsIn
  <2>. QED
    BY <2>1, <2>2, <2>5, ThreadHasRead
<1>13. ASSUME NEW p \in ProfileIds, NEW m, NEW order, NEW q, q = Plan(p, m, order),
              Continue(c, q), UNCHANGED tables,
              m \in ModsIn(p) \ DOMAIN order => order = Without(ListOf(p), m)
       PROVE  VecInv'
  <2>1. q.at = "replace" /\ q.pid = p /\ q.mid = m /\ q.list = order
    BY <1>13 DEF Plan, Idle
  <2>2. ListOf(p)' = ListOf(p) /\ ModsIn(p)' = ModsIn(p)
    BY <1>13, ListStays DEF tables
  <2>3. ReadForVec(q)'
    BY <1>13, <2>1, <2>2 DEF ReadForVec
  <2>. QED
    BY <1>13, <2>3, ThreadHasRead
<1>14. ASSUME NEW p \in ProfileIds
       PROVE  /\ ListOf(p) \in OrderOf(ModsIn(p)) /\ DOMAIN ListOf(p) = ModsIn(p)
              /\ IsFiniteSet(ModsIn(p)) /\ ModsIn(p) \in SUBSET ModIds
  BY <1>2, <1>14, ListOfIsOrder, OrdersOfMods DEF OrderOf
<1>15. CASE RemoveMod(c)
  <2>1. PICK p \in profiles : \E m \in ModsIn(p) :
          Continue(c, Plan(p, m, Without(ListOf(p), m)))
    BY <1>15 DEF RemoveMod, Begin
  <2>2. PICK m \in ModsIn(p) : Continue(c, Plan(p, m, Without(ListOf(p), m)))
    BY <2>1
  <2>3. PICK q : q = Plan(p, m, Without(ListOf(p), m)) /\ Continue(c, q)
    BY <2>2
  <2>. QED
    BY <1>2, <1>13, <1>15, <2>3 DEF RemoveMod
<1>16. CASE MoveMod(c)
  <2>1. PICK p \in profiles : \E m \in ModsIn(p), n \in 0 .. Cardinality(ModIds) + 1 :
          Continue(c, Plan(p, m, Moved(ListOf(p), m, Clamped(n, Cardinality(DOMAIN ListOf(p))))))
    BY <1>16 DEF MoveMod, Begin
  <2>2. PICK m \in ModsIn(p), n \in 0 .. Cardinality(ModIds) + 1 :
          Continue(c, Plan(p, m, Moved(ListOf(p), m, Clamped(n, Cardinality(DOMAIN ListOf(p))))))
    BY <2>1
  <2>3. PICK order, q :
          /\ order = Moved(ListOf(p), m, Clamped(n, Cardinality(DOMAIN ListOf(p))))
          /\ q = Plan(p, m, order) /\ Continue(c, q)
    BY <2>2
  <2>4. DOMAIN order = ModsIn(p)
    BY <1>2, <1>14, <2>3 DEF Moved, Ranked
  <2>5. m \notin ModsIn(p) \ DOMAIN order
    BY <2>4
  <2>6. UNCHANGED tables
    BY <1>16 DEF MoveMod
  <2>. QED
    BY <1>2, <1>13, <2>3, <2>5, <2>6
<1>17. CASE ReorderMods(c)
  <2>0. PICK p \in profiles : \E ids : Continue(c, Plan(p, None, IndexOf(ids)))
    BY <1>17 DEF ReorderMods, Begin
  <2>1. PICK ids, q : q = Plan(p, None, IndexOf(ids)) /\ Continue(c, q)
    BY <2>0
  <2>2. None \notin ModsIn(p)
    BY <1>2, <1>14, NoneAssumption
  <2>3. UNCHANGED tables
    BY <1>17 DEF ReorderMods
  <2>. QED
    BY <1>2, <1>13, <2>1, <2>2, <2>3
<1>. QED
  BY <1>5, <1>6, <1>7, <1>8, <1>9, <1>c, <1>10, <1>11, <1>12, <1>15, <1>16, <1>17
     DEF ModListStep, ProfileStep

\* VecInv is inductive under IInv.
LEMMA VecInvStep ==
  ASSUME OneThread, IInv, VecInv, [Next]_vars
  PROVE  VecInv'
<1>1. CASE Next
  BY <1>1, StepKeepsRead DEF Next
<1>2. CASE UNCHANGED vars
  <2>1. call' = call /\ prio' = prio
    BY <1>2 DEF vars, tables
  <2>2. ASSUME NEW k, ReadForVec(k) PROVE ReadForVec(k)'
    <3>1. ModsIn(k.pid)' = ModsIn(k.pid) /\ ListOf(k.pid)' = ListOf(k.pid)
      BY <2>1 DEF ModsIn, ListOf
    <3>. QED
      BY <2>1, <2>2, <3>1 DEF ReadForVec, IsNextPriority
  <2>3. ASSUME NEW d \in Conns PROVE ReadForVec(call[d])'
    <3>1. PICK k : k = call[d] /\ k = call'[d]
      BY <2>1
    <3>2. ReadForVec(k)'
      BY <2>2, <3>1 DEF VecInv
    <3>. QED
      BY <3>1, <3>2 DEF ReadForVec
  <2>. QED
    BY <2>3 DEF VecInv
<1>. QED
  BY <1>1, <1>2

-----------------------------------------------------------------------------
\* Priorities change with five statements only.
LEMMA WritesOfPriorities ==
  ASSUME NEW c \in Conns, ModListStep(c) \/ ProfileStep(c), prio' # prio
  PROVE  \/ InsertProfileMod(c) \/ ReplaceAll(c) \/ DeleteMod(c)
         \/ DeleteRow(c) \/ CommitDelete(c)
<1>1. ~ UNCHANGED tables
  BY DEF tables
<1>2. CASE ModListStep(c)
  BY <1>1, <1>2 DEF ModListStep, AddMod, CountRow, ReadMaxPriority, InsertRefused, RemoveMod,
     MoveMod, ReorderMods, ReplaceRefused, SetModEnabled, SetEnabledFlag, InstallMod,
     InsertMod, InsertModRow, InsertModRefused, ReadActive, Abort
<1>3. CASE ProfileStep(c)
  BY <1>1, <1>3 DEF ProfileStep, CreateProfile, SetActive, CommitActive, DeleteProfile,
     CloneProfile, InsertClone, ListSource, EnsureDefault, InsertDefault, InsertNameRefused,
     ActivateDefault, InsertProfileRow, SetSoleActive
<1>. QED
  BY <1>2, <1>3

\* Each write of priorities is an operation on a Vec.
LEMMA WriteIsVecStep ==
  ASSUME IInv, SerialInv, VecInv, NEW c \in Conns,
         ModListStep(c) \/ ProfileStep(c), prio' # prio
  PROVE  Vecs!VecsNext
<1>1. PICK k : k = call[c]
  OBVIOUS
<1>2. /\ k \in Calls /\ k \in GoodCalls /\ TablesInv /\ ReadForVec(k) /\ ReplacePlanned(k)
      /\ profiles \subseteq ProfileIds /\ mods \subseteq ModIds
  BY <1>1 DEF IInv, GoodCalls, TablesInv, TablesTypeOK, VecInv, SerialInv, PlannedInv
<1>3. CASE InsertProfileMod(c)
  <2>1. k.at = "insert" /\ InsertRow(k.pid, k.mid, k.next)
    BY <1>1, <1>3 DEF InsertProfileMod
  <2>2. PICK p, m, n : p = k.pid /\ m = k.mid /\ n = k.next
    OBVIOUS
  <2>3. /\ p \in ProfileIds /\ m \in ModIds /\ n \in Nat /\ n # 0
        /\ IsNextPriority(p, n) /\ InsertRow(p, m, n)
    BY <1>2, <2>1, <2>2 DEF InsertRow, KeysExist, GoodCalls, Calls, ReadForVec
  <2>4. Vecs!AddLast(p, m)
    BY <1>2, <2>3, InsertAddsLast
  <2>. QED
    BY <2>3, <2>4 DEF Vecs!VecsNext
<1>4. CASE ReplaceAll(c)
  <2>1. k.at = "replace" /\ ReplaceRows(k.pid, k.list, k.on)
    BY <1>1, <1>4 DEF ReplaceAll
  <2>2. PICK p, m, order, on : p = k.pid /\ m = k.mid /\ order = k.list /\ on = k.on
    OBVIOUS
  <2>3. /\ p \in ProfileIds /\ order \in Orders /\ order \in OrderOf(DOMAIN order)
        /\ ReplaceRows(p, order, on)
        /\ DOMAIN order = ModsIn(p) \ ({m} \ DOMAIN order)
        /\ m \in ModsIn(p) \ DOMAIN order => order = Without(ListOf(p), m)
    BY <1>2, <2>1, <2>2 DEF ReadForVec, ReplacePlanned, AskedToDrop, GoodCalls, Calls
  <2>4. Vecs!Becomes(p, VecOf(order))
    BY <1>2, <2>3, ReplaceLeavesOrder
  <2>5. CASE m \in ModsIn(p) \ DOMAIN order
    <3>1. VecOf(order) = Vecs!Filtered(Lists[p], m)
      <4>1. ListOf(p) \in OrderOf(ModsIn(p)) /\ IsFiniteSet(ModsIn(p)) /\ m \in ModsIn(p)
        BY <1>2, <2>3, <2>5, ListOfIsOrder, OrdersOfMods
      <4>2. Lists[p] = VecOf(ListOf(p))
        BY <1>2, <2>3, ListIsVec
      <4>. QED
        BY <2>3, <2>5, <4>1, <4>2, WithoutIsFiltered
    <3>2. Vecs!Becomes(p, Vecs!Filtered(Lists[p], m)) /\ m \in ModIds
      BY <2>4, <2>5, <3>1 DEF ModsIn
    <3>. QED
      BY <2>3, <3>2 DEF Vecs!VecsNext
  <2>6. CASE m \notin ModsIn(p) \ DOMAIN order
    <3>1. DOMAIN order = ModsIn(p)
      BY <2>3, <2>6
    <3>2. PICK v, s : v = Lists[p] /\ s = VecOf(order)
      OBVIOUS
    <3>3. s \in [1 .. Len(v) -> Vecs!ToSet(v)] /\ Vecs!Reordered(p, s)
      BY <1>2, <2>3, <2>4, <3>1, <3>2, CommitReorders
    <3>. QED
      BY <2>3, <3>2, <3>3 DEF Vecs!VecsNext
  <2>. QED
    BY <2>5, <2>6
<1>5. CASE DeleteMod(c)
  <2>1. PICK m \in mods : DropMod(m)
    BY <1>5 DEF DeleteMod
  <2>2. m \in ModIds /\ Vecs!ForgetMod(m)
    BY <1>2, <2>1, DropForgets
  <2>. QED
    BY <2>2 DEF Vecs!VecsNext
<1>6. CASE DeleteRow(c) \/ CommitDelete(c)
  <2>1. PICK p : DropProfile(p)
    BY <1>6 DEF DeleteRow, CommitDelete
  <2>2. p \in ProfileIds
    <3>1. SUFFICES ASSUME p \notin ProfileIds PROVE FALSE
      OBVIOUS
    <3>2. prio' = prio
      BY <1>2, <2>1, <3>1 DEF DropProfile, TablesInv, TablesTypeOK
    <3>. QED
      BY <3>2
  <2>3. Vecs!Becomes(p, << >>)
    BY <1>2, <2>1, <2>2, DropEmpties
  <2>. QED
    BY <2>2, <2>3 DEF Vecs!VecsNext
<1>. QED
  BY <1>3, <1>4, <1>5, <1>6, WritesOfPriorities

\* With one thread the tables implement the Vecs of ModVecs: whatever gaps and
\* statements lie underneath, each step is one operation on one Vec or the
\* removal of a mod from all, or changes no Vec.
THEOREM TablesImplementVecs ==
  ASSUME OneThread
  PROVE  Spec => ListsAreVecs
<1>1. Init => SerialInv /\ VecInv
  <2>1. Idle.at = "idle"
    BY DEF Idle
  <2>2. ASSUME NEW k, k.at = "idle" PROVE ReplacePlanned(k) /\ ClonePlanned(k) /\ ReadForVec(k)
    BY <2>2 DEF ReplacePlanned, ClonePlanned, ReadForVec
  <2>. QED
    BY <2>1, <2>2 DEF Init, EmptyDb, SerialInv, SpentInv, PlannedInv, VecInv
<1>2. IInv /\ SerialInv /\ [Next]_vars => SerialInv'
  BY SerialStep
<1>3. IInv /\ VecInv /\ [Next]_vars => VecInv'
  BY VecInvStep
<1>4. Init => Vecs!VecsInit
  <2>1. SUFFICES ASSUME Init PROVE Vecs!VecsInit
    OBVIOUS
  <2>2. ASSUME NEW p \in ProfileIds PROVE Lists[p] = << >>
    <3>1. PICK key : key = [m \in {} |-> prio[p][m]]
      OBVIOUS
    <3>2. ModsIn(p) = {}
      BY <2>1 DEF Init, EmptyDb, ModsIn
    <3>3. Lists[p] = VecOf(key)
      BY <3>1, <3>2 DEF Lists
    <3>4. IsFiniteSet({}) /\ Cardinality({}) = 0
      BY FS_EmptySet
    <3>5. key \in [{} -> Int] /\ OneToOne(key)
      BY <3>1 DEF OneToOne
    <3>6. Sorts(<< >>, {}, key)
      BY <3>4 DEF Sorts
    <3>. QED
      BY <3>3, <3>4, <3>5, <3>6, SortedIsVec
  <2>3. Lists = [p \in ProfileIds |-> Lists[p]]
    BY DEF Lists
  <2>. QED
    BY <2>2, <2>3 DEF Vecs!VecsInit
<1>5. IInv /\ SerialInv /\ VecInv /\ [Next]_vars => [Vecs!VecsNext]_Lists
  <2>1. SUFFICES ASSUME IInv, SerialInv, VecInv, [Next]_vars, Lists' # Lists
                 PROVE  Vecs!VecsNext
    OBVIOUS
  <2>2. prio' # prio
    BY <2>1 DEF Lists, ModsIn
  <2>3. Next
    BY <2>1, <2>2 DEF vars, tables
  <2>4. PICK c \in Conns : ModListStep(c) \/ ProfileStep(c)
    BY <2>3 DEF Next
  <2>. QED
    BY <2>1, <2>2, <2>4, WriteIsVecStep
<1>. QED
  BY <1>1, <1>2, <1>3, <1>4, <1>5, InvHolds, PTL DEF Spec, ListsAreVecs, Vecs!VecsSpec

(***************************************************************************)
(* The window.                                                             *)
(*                                                                         *)
(* Every write of the window is a step of Profiles, so the invariant of    *)
(* Profiles holds here too (DatabaseKeeps).  WindowInv adds what is true   *)
(* of a reload while it runs and of the snapshots under way (FlowInv) and  *)
(* who activates the first profile (ActiveInv).                            *)
(***************************************************************************)

LoadRecords ==
  [at    : {"idle", "open", "migrate", "dead", "ensure", "ensuring", "list", "active", "mods",
            "plugins", "send", "gone"},
   scope : {"Full", "ModsOnly"},
   snap  : Snapshots]
GtkRecords ==
  [at : {"idle", "setActive", "publish", "refresh"}, event : Events \cup {None}]

WindowTypes ==
  /\ schema \in BOOLEAN
  /\ load \in [Loaders -> LoadRecords]
  /\ subs \in 0 .. 4
  /\ gtk \in GtkRecords
  /\ chan \in Seq(Snapshots) /\ shown \in Snapshots
  /\ scanned \in BOOLEAN /\ failed \in BOOLEAN

\* A snapshot without a profile has no mods, and a switch in it no row to write.
SnapGood(s) == s.profile = None => DOMAIN s.order = {}

LoadGood(r) ==
  /\ SnapGood(r.snap)
  /\ r.at = "mods" => r.snap.profile \in ProfileIds
  /\ r.at = "send" => r.snap.plugins
  /\ r.at = "send" \/ r.scope = "ModsOnly" => scanned

\* Every snapshot on its way has the result of a scan, and before the first one
\* there is no switch to flip: no reload that skips the scan comes too early.
FlowInv ==
  /\ \A c \in Loaders : LoadGood(load[c])
  /\ \A i \in DOMAIN chan : SnapGood(chan[i]) /\ chan[i].plugins
  /\ SnapGood(shown)
  /\ chan # <<>> \/ DOMAIN shown.order # {} => scanned
  /\ gtk.at = "publish" /\ gtk.event \in {"ModEnabled", "ModDisabled"} => scanned

\* Profiles are never deleted here, and between the insertion of the first one
\* and its activation a thread is on the way to activate it.
Activating(c) == call[c].at \in {"activate", "setActive"}
ActiveInv ==
  /\ \A c \in Conns : Activating(c) => call[c].pid \in profiles
  /\ profiles # {} => active # {} \/ \E c \in Conns : Activating(c)

WindowInv == WindowTypes /\ FlowInv /\ IInv /\ ActiveInv

-----------------------------------------------------------------------------
LEMMA Threads ==
  /\ Loaders \subseteq Conns /\ Installers \subseteq Conns
  /\ Gtk \in Loaders /\ Worker \in Loaders /\ Reloads \subseteq Loaders /\ Gtk \notin Reloads
BY WindowAssumption DEF Loaders

LEMMA EventNames ==
  Events = {"ModInstalled", "ModEnabled", "ModDisabled", "ProfileChanged"}
<1>1. \A e : e \in Events <=> \E i \in 1 .. 4 : Subscriptions[i] = e
  BY DEF Events
<1>2. \A i : i \in 1 .. 4 <=> i \in {1, 2, 3, 4}
  OBVIOUS
<1>3. /\ Subscriptions[1] = "ModInstalled" /\ Subscriptions[2] = "ModEnabled"
      /\ Subscriptions[3] = "ModDisabled" /\ Subscriptions[4] = "ProfileChanged"
  BY DEF Subscriptions
<1>. QED
  BY <1>1, <1>2, <1>3

LEMMA PlaceholderIsGood == Placeholder \in Snapshots /\ SnapGood(Placeholder)
<1>1. << >> \in Orders
  BY IdleIsGood DEF Idle, GoodCalls, Calls
<1>2. Placeholder \in Snapshots
  BY <1>1 DEF Placeholder, Snapshots
<1>3. DOMAIN << >> = {}
  OBVIOUS
<1>. QED
  BY <1>2, <1>3 DEF Placeholder, SnapGood

\* One thread goes on in load_state.
LEMMA LoadMoves ==
  ASSUME WindowTypes, FlowInv, NEW c \in Loaders, NEW r \in LoadRecords,
         load' = [load EXCEPT ![c] = r],
         schema' \in BOOLEAN, scanned' \in BOOLEAN, failed' \in BOOLEAN,
         scanned => scanned', UNCHANGED <<subs, shown>>,
         gtk' \in GtkRecords, gtk' = gtk \/ gtk'.at # "publish",
         SnapGood(r.snap), r.at = "mods" => r.snap.profile \in ProfileIds,
         r.at = "send" => r.snap.plugins /\ scanned', r.scope = "ModsOnly" => scanned',
         chan' \in Seq(Snapshots), \A i \in DOMAIN chan' : SnapGood(chan'[i]) /\ chan'[i].plugins,
         chan' # <<>> => chan # <<>> \/ scanned'
  PROVE  WindowTypes' /\ FlowInv'
<1>1. WindowTypes'
  BY DEF WindowTypes
<1>2. \A d \in Loaders : load'[d] = IF d = c THEN r ELSE load[d]
  BY DEF WindowTypes
<1>3. ASSUME NEW d \in Loaders PROVE LoadGood(load[d])'
  <2>1. CASE d = c
    BY <1>2, <2>1 DEF LoadGood, SnapGood
  <2>2. CASE d # c
    BY <1>2, <2>2 DEF FlowInv, LoadGood, SnapGood
  <2>. QED
    BY <2>1, <2>2
<1>4. FlowInv'
  BY <1>3 DEF FlowInv, SnapGood
<1>. QED
  BY <1>1, <1>4

\* The steps of load_state that change nothing but its thread's record.
LEMMA LoadMovesAlone ==
  ASSUME WindowTypes, FlowInv, NEW c \in Loaders, NEW r \in LoadRecords,
         load' = [load EXCEPT ![c] = r], RestOfWindow,
         SnapGood(r.snap), r.at = "mods" => r.snap.profile \in ProfileIds,
         r.at # "send", r.scope = load[c].scope
  PROVE  WindowTypes' /\ FlowInv'
<1>1. load[c].scope = "ModsOnly" => scanned
  BY DEF FlowInv, LoadGood
<1>. QED
  BY <1>1, LoadMoves DEF RestOfWindow, WindowTypes, FlowInv

LEMMA LoadRecord ==
  ASSUME WindowTypes, FlowInv, NEW c \in Loaders
  PROVE  /\ load[c] \in LoadRecords /\ LoadGood(load[c]) /\ load[c].snap \in Snapshots
         /\ load[c] = [at |-> load[c].at, scope |-> load[c].scope, snap |-> load[c].snap]
BY DEF WindowTypes, FlowInv, LoadRecords

LEMMA GoToKeeps ==
  ASSUME WindowTypes, FlowInv, NEW c \in Loaders, NEW a, GoTo(c, a),
         a \in {"open", "migrate", "dead", "ensure", "ensuring", "list", "active", "plugins", "gone"},
         schema' \in BOOLEAN, UNCHANGED <<subs, chan, shown, scanned, failed>>,
         gtk' \in GtkRecords, gtk' = gtk \/ gtk'.at # "publish"
  PROVE  WindowTypes' /\ FlowInv'
<1>. DEFINE r == [load[c] EXCEPT !.at = a]
<1>1. load[c] \in LoadRecords /\ LoadGood(load[c])
  BY LoadRecord
<1>2. r \in LoadRecords /\ r.at = a /\ r.snap = load[c].snap /\ r.scope = load[c].scope
  BY <1>1 DEF LoadRecords
<1>3. load' = [load EXCEPT ![c] = r]
  BY DEF GoTo
<1>. HIDE DEF r
<1>. QED
  BY <1>1, <1>2, <1>3, LoadMoves DEF LoadGood, WindowTypes, FlowInv

LEMMA FillKeeps ==
  ASSUME WindowTypes, FlowInv, NEW c \in Loaders, NEW a, NEW s \in Snapshots, Fill(c, a, s),
         a \in {"active", "mods", "plugins"}, SnapGood(s), a = "mods" => s.profile \in ProfileIds,
         RestOfWindow
  PROVE  WindowTypes' /\ FlowInv'
<1>. DEFINE r == [load[c] EXCEPT !.at = a, !.snap = s]
<1>1. load[c] \in LoadRecords
  BY LoadRecord
<1>2. r \in LoadRecords /\ r.at = a /\ r.snap = s /\ r.scope = load[c].scope
  BY <1>1 DEF LoadRecords
<1>3. load' = [load EXCEPT ![c] = r]
  BY DEF Fill
<1>. HIDE DEF r
<1>. QED
  BY <1>2, <1>3, LoadMovesAlone

LEMMA ResentGives ==
  ASSUME WindowTypes, FlowInv, NEW c \in Loaders, Resent(c),
         schema' \in BOOLEAN, failed' \in BOOLEAN, UNCHANGED <<subs, gtk, shown, scanned>>,
         chan' \in Seq(Snapshots), \A i \in DOMAIN chan' : SnapGood(chan'[i]) /\ chan'[i].plugins,
         chan' # <<>> => chan # <<>> \/ scanned'
  PROVE  WindowTypes' /\ FlowInv'
<1>. DEFINE a == IF c = Gtk THEN "idle" ELSE "gone"
            r == [load[c] EXCEPT !.at = a, !.snap = Placeholder]
<1>1. load[c] \in LoadRecords /\ LoadGood(load[c])
  BY LoadRecord
<1>2. a \in {"idle", "gone"}
  OBVIOUS
<1>3. load' = [load EXCEPT ![c] = r]
  BY DEF Resent
<1>. HIDE DEF a
<1>4. r \in LoadRecords /\ r.at = a /\ r.snap = Placeholder /\ r.scope = load[c].scope
  BY <1>1, <1>2, PlaceholderIsGood DEF LoadRecords
<1>. HIDE DEF r
<1>. QED
  BY <1>1, <1>2, <1>3, <1>4, PlaceholderIsGood, LoadMoves DEF LoadGood, WindowTypes

LEMMA ReadsKeep ==
  ASSUME WindowInv, NEW c \in Loaders,
         ReadVersion(c) \/ Migrate(c) \/ FoundProfiles(c) \/ ReadProfiles(c)
           \/ ReadActiveProfile(c) \/ ReadMods(c)
  PROVE  WindowTypes' /\ FlowInv'
<1>0. /\ WindowTypes /\ FlowInv /\ schema \in BOOLEAN /\ load[c] \in LoadRecords
      /\ LoadGood(load[c]) /\ load[c].snap \in Snapshots
  BY LoadRecord DEF WindowInv, WindowTypes
<1>t. TablesInv /\ profiles \subseteq ProfileIds /\ active \subseteq profiles
  BY DEF WindowInv, IInv, TablesInv, TablesTypeOK
<1>1. CASE ReadVersion(c)
  BY <1>0, <1>1, GoToKeeps DEF ReadVersion, RestOfWindow, WindowTypes
<1>2. CASE Migrate(c)
  BY <1>0, <1>2, GoToKeeps DEF Migrate, WindowTypes
<1>3. CASE FoundProfiles(c)
  BY <1>0, <1>3, GoToKeeps DEF FoundProfiles, RestOfWindow, WindowTypes
<1>4. CASE ReadProfiles(c)
  <2>. DEFINE s == [load[c].snap EXCEPT !.profiles = profiles, !.flagged = active]
  <2>1. s \in Snapshots /\ SnapGood(s)
    BY <1>0, <1>t DEF Snapshots, LoadGood, SnapGood
  <2>2. Fill(c, "active", s) /\ RestOfWindow
    BY <1>4 DEF ReadProfiles
  <2>. HIDE DEF s
  <2>. QED
    BY <1>0, <2>1, <2>2, FillKeeps
<1>5. CASE ReadActiveProfile(c)
  <2>1. CASE GoTo(c, "plugins")
    BY <1>0, <1>5, <2>1, GoToKeeps DEF ReadActiveProfile, RestOfWindow, WindowTypes
  <2>2. ASSUME NEW p \in active, Fill(c, "mods", [load[c].snap EXCEPT !.profile = p])
        PROVE  WindowTypes' /\ FlowInv'
    <3>. DEFINE s == [load[c].snap EXCEPT !.profile = p]
    <3>1. s \in Snapshots /\ s.profile = p /\ p \in ProfileIds
      BY <1>0, <1>t DEF Snapshots
    <3>2. SnapGood(s)
      BY <3>1, NoneAssumption DEF SnapGood
    <3>3. RestOfWindow
      BY <1>5 DEF ReadActiveProfile
    <3>. HIDE DEF s
    <3>4. Fill(c, "mods", s)
      BY <2>2 DEF s
    <3>. QED
      BY <1>0, <3>1, <3>2, <3>3, <3>4, FillKeeps
  <2>. QED
    BY <1>5, <2>1, <2>2 DEF ReadActiveProfile
<1>6. CASE ReadMods(c)
  <2>. DEFINE p == load[c].snap.profile
              s == [load[c].snap EXCEPT !.order = ListOf(p), !.on = enabled[p]]
  <2>1. p \in ProfileIds
    BY <1>0, <1>6 DEF ReadMods, At, LoadGood
  <2>2. ListOf(p) \in Orders
    BY <1>t, <2>1, ListOfIsOrder, OrdersOfMods
  <2>3. enabled[p] \in SUBSET ModIds
    BY <1>t, <2>1 DEF TablesInv, TablesTypeOK
  <2>4. s \in Snapshots /\ s.profile = p
    BY <1>0, <2>2, <2>3 DEF Snapshots
  <2>5. SnapGood(s)
    BY <2>1, <2>4, NoneAssumption DEF SnapGood
  <2>6. Fill(c, "plugins", s) /\ RestOfWindow
    BY <1>6 DEF ReadMods
  <2>. HIDE DEF s
  <2>. QED
    BY <1>0, <2>4, <2>5, <2>6, FillKeeps
<1>. QED
  BY <1>1, <1>2, <1>3, <1>4, <1>5, <1>6

LEMMA ReadPluginsKeeps ==
  ASSUME WindowTypes, FlowInv, NEW c \in Loaders, ReadPlugins(c)
  PROVE  WindowTypes' /\ FlowInv'
<1>. DEFINE s == [load[c].snap EXCEPT !.plugins = scanned']
            r == [load[c] EXCEPT !.at = "send", !.snap = s]
<1>1. load[c] \in LoadRecords /\ LoadGood(load[c]) /\ load[c].snap \in Snapshots
  BY LoadRecord
<1>2. /\ scanned' = (scanned \/ load[c].scope = "Full") /\ load' = [load EXCEPT ![c] = r]
      /\ UNCHANGED <<schema, subs, gtk, chan, shown, failed>>
  BY DEF ReadPlugins, Fill
<1>3. scanned'
  BY <1>1, <1>2 DEF LoadGood, LoadRecords, WindowTypes
<1>4. scanned' \in BOOLEAN
  BY <1>2 DEF WindowTypes
<1>5. s \in Snapshots /\ s.plugins = scanned' /\ s.profile = load[c].snap.profile /\ s.order = load[c].snap.order
  BY <1>1, <1>4 DEF Snapshots
<1>. HIDE DEF s
<1>6. r \in LoadRecords /\ r.at = "send" /\ r.snap = s /\ r.scope = load[c].scope
  BY <1>1, <1>5 DEF LoadRecords
<1>. HIDE DEF r
<1>7. SnapGood(r.snap) /\ r.snap.plugins
  BY <1>1, <1>3, <1>5, <1>6 DEF LoadGood, SnapGood
<1>8. /\ schema' \in BOOLEAN /\ failed' \in BOOLEAN /\ gtk' \in GtkRecords /\ chan' \in Seq(Snapshots)
      /\ \A i \in DOMAIN chan' : SnapGood(chan'[i]) /\ chan'[i].plugins
  BY <1>2 DEF WindowTypes, FlowInv
<1>. QED
  BY <1>2, <1>3, <1>4, <1>6, <1>7, <1>8, LoadMoves

LEMMA SendSnapshotKeeps ==
  ASSUME WindowTypes, FlowInv, NEW c \in Loaders, SendSnapshot(c)
  PROVE  WindowTypes' /\ FlowInv'
<1>. DEFINE s == load[c].snap
<1>1. s \in Snapshots /\ LoadGood(load[c]) /\ load[c].at = "send"
  BY LoadRecord DEF SendSnapshot, At
<1>2. SnapGood(s) /\ s.plugins /\ scanned
  BY <1>1 DEF LoadGood
<1>3. chan' = Append(chan, s) /\ chan \in Seq(Snapshots)
  BY DEF SendSnapshot, WindowTypes
<1>. HIDE DEF s
<1>4. /\ chan' \in Seq(Snapshots) /\ DOMAIN chan' = 1 .. Len(chan) + 1
      /\ DOMAIN chan = 1 .. Len(chan) /\ Len(chan) \in Nat
      /\ \A i \in 1 .. Len(chan) : chan'[i] = chan[i]
      /\ chan'[Len(chan) + 1] = s
  BY <1>1, <1>3, AppendProperties, LenProperties
<1>5. \A i \in 1 .. Len(chan) + 1 : i \in 1 .. Len(chan) \/ i = Len(chan) + 1
  BY <1>4
<1>6. \A i \in DOMAIN chan' : SnapGood(chan'[i]) /\ chan'[i].plugins
  BY <1>2, <1>4, <1>5 DEF FlowInv
<1>7. /\ Resent(c) /\ UNCHANGED <<schema, subs, gtk, shown, scanned, failed>>
      /\ schema' \in BOOLEAN /\ failed' \in BOOLEAN
  BY DEF SendSnapshot, WindowTypes
<1>. QED
  BY <1>2, <1>4, <1>6, <1>7, ResentGives

LEMMA ReloadFailsKeeps ==
  ASSUME WindowTypes, FlowInv, NEW c \in Loaders, ReloadFails(c) \/ EnsureRefused(c)
  PROVE  WindowTypes' /\ FlowInv'
<1>1. /\ Resent(c) /\ schema' \in BOOLEAN /\ failed' \in BOOLEAN
      /\ UNCHANGED <<subs, gtk, chan, shown, scanned>>
  BY DEF ReloadFails, EnsureRefused, RestOfWindow, WindowTypes
<1>2. /\ chan' \in Seq(Snapshots) /\ chan' = chan
      /\ \A i \in DOMAIN chan' : SnapGood(chan'[i]) /\ chan'[i].plugins
  BY <1>1 DEF WindowTypes, FlowInv
<1>. QED
  BY <1>1, <1>2, ResentGives

\* The window's variables stay.
LEMMA WindowStays ==
  ASSUME WindowTypes, FlowInv, UNCHANGED windowVars
  PROVE  WindowTypes' /\ FlowInv'
BY DEF WindowTypes, FlowInv, LoadGood, SnapGood, windowVars

LEMMA EnsureKeeps ==
  ASSUME WindowTypes, FlowInv, NEW c \in Loaders, Ensure(c)
  PROVE  WindowTypes' /\ FlowInv'
<1>1. RestOfWindow
  BY DEF Ensure
<1>2. CASE UNCHANGED load
  BY <1>1, <1>2, WindowStays DEF RestOfWindow, windowVars
<1>3. CASE GoTo(c, "ensuring") \/ GoTo(c, "list")
  BY <1>1, <1>3, GoToKeeps DEF RestOfWindow, WindowTypes
<1>. QED
  BY <1>2, <1>3 DEF Ensure

LEMMA LoadStepKeepsWindow ==
  ASSUME WindowInv, NEW c \in Loaders, LoadStep(c) \/ ReloadFails(c)
  PROVE  WindowTypes' /\ FlowInv'
BY ReadsKeep, ReadPluginsKeeps, SendSnapshotKeeps, ReloadFailsKeeps, EnsureKeeps
   DEF LoadStep, WindowInv

-----------------------------------------------------------------------------
\* A handler goes on, and what it publishes comes from a switch that is there.
LEMMA HandlerKeeps ==
  ASSUME WindowTypes, FlowInv, RestOfGtk, NEW a, NEW e, Handler(a, e),
         a \in {"idle", "setActive", "publish", "refresh"}, e \in Events \cup {None},
         a = "publish" /\ e \in {"ModEnabled", "ModDisabled"} => scanned
  PROVE  WindowTypes' /\ FlowInv'
<1>1. gtk' \in GtkRecords /\ gtk'.at = a /\ gtk'.event = e
  BY DEF Handler, GtkRecords
<1>2. UNCHANGED <<schema, load, subs, chan, shown, scanned, failed>>
  BY DEF RestOfGtk
<1>3. WindowTypes'
  BY <1>1, <1>2 DEF WindowTypes
<1>4. FlowInv'
  BY <1>1, <1>2 DEF FlowInv, LoadGood, SnapGood
<1>. QED
  BY <1>3, <1>4

LEMMA FlipSwitchKeeps ==
  ASSUME WindowTypes, FlowInv, FlipSwitch
  PROVE  /\ WindowTypes' /\ FlowInv'
         /\ \E p \in ProfileIds, m \in ModIds, b \in BOOLEAN : SetEnabledFlag(p, m, b)
         /\ UNCHANGED call
<1>1. PICK m \in DOMAIN shown.order, b \in BOOLEAN :
        /\ SetEnabledFlag(shown.profile, m, b)
        /\ \/ Handler("publish", IF b THEN "ModEnabled" ELSE "ModDisabled")
           \/ Handler("refresh", None)
  BY DEF FlipSwitch
<1>2. scanned /\ RestOfGtk /\ UNCHANGED call
  BY <1>1 DEF FlowInv, FlipSwitch
<1>3. shown.profile \in ProfileIds /\ m \in ModIds
  <2>1. shown \in Snapshots /\ SnapGood(shown)
    BY DEF WindowTypes, FlowInv
  <2>2. shown.profile \in ProfileIds \cup {None} /\ shown.order \in Orders
    BY <2>1 DEF Snapshots
  <2>. QED
    BY <1>1, <2>1, <2>2 DEF Orders, SnapGood
<1>4. {"ModEnabled", "ModDisabled"} \subseteq Events
  BY EventNames
<1>5. WindowTypes' /\ FlowInv'
  <2>1. CASE Handler("refresh", None)
    BY <1>2, <2>1, HandlerKeeps
  <2>2. CASE Handler("publish", IF b THEN "ModEnabled" ELSE "ModDisabled")
    BY <1>2, <1>4, <2>2, HandlerKeeps
  <2>. QED
    BY <1>1, <2>1, <2>2
<1>. QED
  BY <1>1, <1>2, <1>3, <1>5

LEMMA ClicksKeep ==
  ASSUME WindowTypes, FlowInv, Activate \/ Activated \/ PressOther
  PROVE  WindowTypes' /\ FlowInv'
<1>1. RestOfGtk
  BY DEF Activate, Activated, PressOther
<1>2. \/ Handler("setActive", None) \/ Handler("refresh", None)
      \/ Handler("publish", "ProfileChanged")
  BY DEF Activate, Activated, PressOther
<1>3. "ProfileChanged" \in Events
  BY EventNames
<1>. QED
  BY <1>1, <1>2, <1>3, HandlerKeeps

LEMMA HandlerEnds ==
  ASSUME NEW a, Handler(a, None), a \in {"idle", "refresh"}
  PROVE  gtk' \in GtkRecords /\ gtk'.at # "publish"
BY DEF Handler, GtkRecords

LEMMA PublishKeeps ==
  ASSUME WindowTypes, FlowInv, Publish
  PROVE  WindowTypes' /\ FlowInv'
<1>1. /\ gtk.at = "publish" /\ Handler("refresh", None)
      /\ UNCHANGED <<schema, subs, chan, shown, scanned, failed>>
  BY DEF Publish
<1>2. CASE load' = load
  BY <1>1, <1>2, HandlerKeeps DEF RestOfGtk
<1>3. CASE load' = [load EXCEPT ![Gtk].at = "ensure", ![Gtk].scope = ScopeOf(gtk.event)]
  <2>. DEFINE sc == ScopeOf(gtk.event)
              r == [load[Gtk] EXCEPT !.at = "ensure", !.scope = sc]
  <2>1. load[Gtk] \in LoadRecords /\ LoadGood(load[Gtk]) /\ Gtk \in Loaders
    BY Threads, LoadRecord
  <2>2. sc \in {"Full", "ModsOnly"} /\ (sc = "ModsOnly" => scanned)
    BY <1>1 DEF ScopeOf, FlowInv
  <2>3. load' = [load EXCEPT ![Gtk] = r]
    BY <1>3
  <2>. HIDE DEF sc
  <2>4. r \in LoadRecords /\ r.at = "ensure" /\ r.snap = load[Gtk].snap /\ r.scope = sc
    BY <2>1, <2>2 DEF LoadRecords
  <2>. HIDE DEF r
  <2>5. gtk' \in GtkRecords /\ gtk'.at # "publish"
    BY <1>1, HandlerEnds
  <2>. QED
    BY <1>1, <2>1, <2>2, <2>3, <2>4, <2>5, LoadMoves DEF LoadGood, WindowTypes, FlowInv
<1>. QED
  BY <1>2, <1>3 DEF Publish

LEMMA RefreshKeeps ==
  ASSUME WindowTypes, FlowInv, Refresh
  PROVE  WindowTypes' /\ FlowInv'
<1>1. PICK c \in Reloads : GoTo(c, AtOpen(schema))
  BY DEF Refresh
<1>2. c \in Loaders /\ AtOpen(schema) \in {"open", "ensure"} /\ schema' \in BOOLEAN
  BY Threads DEF AtOpen, Refresh, WindowTypes
<1>3. gtk' \in GtkRecords /\ gtk'.at # "publish"
  BY HandlerEnds DEF Refresh
<1>. QED
  BY <1>1, <1>2, <1>3, GoToKeeps DEF Refresh

LEMMA ShowSnapshotKeeps ==
  ASSUME WindowTypes, FlowInv, ShowSnapshot
  PROVE  WindowTypes' /\ FlowInv'
<1>1. /\ chan # <<>> /\ shown' = Head(chan) /\ chan' = Tail(chan) /\ chan \in Seq(Snapshots)
      /\ UNCHANGED <<schema, load, subs, gtk, scanned, failed>>
  BY DEF ShowSnapshot, WindowTypes
<1>2. /\ chan' \in Seq(Snapshots) /\ Len(chan) \in Nat \ {0} /\ DOMAIN chan = 1 .. Len(chan)
      /\ DOMAIN chan' = 1 .. Len(chan) - 1 /\ \A i \in 1 .. Len(chan) - 1 : chan'[i] = chan[i + 1]
      /\ Head(chan) = chan[1] /\ Head(chan) \in Snapshots
  <2>1. Tail(chan) \in Seq(Snapshots) /\ Len(Tail(chan)) = Len(chan) - 1
    BY <1>1, HeadTailProperties
  <2>2. Len(chan) \in Nat \ {0} /\ DOMAIN chan = 1 .. Len(chan)
    BY <1>1, EmptySeq, LenProperties
  <2>3. DOMAIN Tail(chan) = 1 .. Len(chan) - 1
    BY <2>1, LenProperties
  <2>4. \A i \in 1 .. Len(chan) - 1 : Tail(chan)[i] = chan[i + 1]
    BY <1>1, <2>1, HeadTailProperties
  <2>5. Head(chan) = chan[1] /\ Head(chan) \in Snapshots
    BY <1>1, HeadTailProperties
  <2>. QED
    BY <1>1, <2>1, <2>2, <2>3, <2>4, <2>5
<1>3. 1 \in DOMAIN chan /\ \A i \in DOMAIN chan' : i + 1 \in DOMAIN chan
  BY <1>2
<1>4. WindowTypes'
  BY <1>1, <1>2 DEF WindowTypes
<1>5. FlowInv'
  <2>1. \A i \in DOMAIN chan' : SnapGood(chan'[i]) /\ chan'[i].plugins
    BY <1>2, <1>3 DEF FlowInv
  <2>2. SnapGood(shown') /\ scanned
    BY <1>1, <1>2, <1>3 DEF FlowInv
  <2>. QED
    BY <1>1, <2>1, <2>2 DEF FlowInv, LoadGood, SnapGood
<1>. QED
  BY <1>4, <1>5

LEMMA SubscribeKeeps ==
  ASSUME WindowTypes, FlowInv, Subscribe
  PROVE  WindowTypes' /\ FlowInv'
<1>1. /\ subs < 4 /\ subs' = subs + 1 /\ subs \in 0 .. 4
      /\ UNCHANGED <<schema, load, gtk, chan, shown, scanned, failed>>
  BY DEF Subscribe, WindowTypes
<1>2. subs' \in 0 .. 4
  BY <1>1
<1>. QED
  BY <1>1, <1>2 DEF WindowTypes, FlowInv, LoadGood, SnapGood

\* Every action, for the variables of the window.
LEMMA WindowKeeps ==
  ASSUME WindowInv, [WindowNext]_allVars
  PROVE  WindowTypes' /\ FlowInv'
<1>0. WindowTypes /\ FlowInv /\ Gtk \in Loaders
  BY Threads DEF WindowInv
<1>1. CASE \E c \in Loaders : LoadStep(c) \/ ReloadFails(c)
  BY <1>1, LoadStepKeepsWindow
<1>2. CASE Subscribe \/ FlipSwitch \/ Activate \/ PressOther
  BY <1>0, <1>2, SubscribeKeeps, FlipSwitchKeeps, ClicksKeep
<1>3. CASE GtkStep
  BY <1>0, <1>3, ClicksKeep, PublishKeeps, LoadStepKeepsWindow, RefreshKeeps, ShowSnapshotKeeps
     DEF GtkStep
<1>4. CASE \E c \in Installers : Install(c)
  BY <1>0, <1>4, WindowStays DEF Install
<1>5. CASE UNCHANGED allVars
  BY <1>0, <1>5, WindowStays DEF allVars, windowVars
<1>. QED
  BY <1>1, <1>2, <1>3, <1>4, <1>5 DEF WindowNext

-----------------------------------------------------------------------------
\* The steps that write to the database or move an operation on.
LEMMA WindowWrites ==
  ASSUME [WindowNext]_allVars
  PROVE  \/ UNCHANGED vars
         \/ \E c \in Loaders : Ensure(c) \/ EnsureRefused(c)
         \/ Activate \/ Activated \/ FlipSwitch
         \/ \E c \in Installers : Install(c)
<1>0. Gtk \in Loaders
  BY Threads
<1>1. ASSUME NEW c \in Loaders, LoadStep(c) \/ ReloadFails(c)
      PROVE  UNCHANGED vars \/ Ensure(c) \/ EnsureRefused(c)
  BY <1>1 DEF LoadStep, ReloadFails, ReadVersion, Migrate, FoundProfiles, ReadProfiles,
              ReadActiveProfile, ReadMods, ReadPlugins, SendSnapshot
<1>2. CASE Subscribe \/ PressOther
  BY <1>2 DEF Subscribe, PressOther
<1>3. CASE Publish \/ Refresh \/ ShowSnapshot
  BY <1>3 DEF Publish, Refresh, ShowSnapshot
<1>4. CASE UNCHANGED allVars
  BY <1>4 DEF allVars
<1>. QED
  BY <1>0, <1>1, <1>2, <1>3, <1>4 DEF WindowNext, GtkStep

\* Every one of them is a step of Profiles.
LEMMA DatabaseKeeps ==
  ASSUME WindowInv, [WindowNext]_allVars
  PROVE  IInv'
<1>0. IInv /\ WindowTypes /\ FlowInv /\ TablesInv /\ call \in [Conns -> GoodCalls]
  BY DEF WindowInv, IInv
<1>1. ASSUME NEW c \in Conns, ModListStep(c) \/ ProfileStep(c)
      PROVE  IInv'
  BY <1>0, <1>1, ModListSteps, ProfileSteps, StatementKeepsTables, CallStepKeepsCalls DEF IInv
<1>2. CASE UNCHANGED vars
  <2>1. Statement /\ call' = call
    BY <1>2 DEF vars, Statement
  <2>. QED
    BY <1>0, <2>1, StatementKeepsTables DEF IInv
<1>3. ASSUME NEW c \in Loaders, Ensure(c) \/ EnsureRefused(c)
      PROVE  IInv'
  <2>1. c \in Conns
    BY Threads
  <2>2. ProfileStep(c)
    BY <1>3 DEF Ensure, EnsureRefused, ProfileStep
  <2>. QED
    BY <1>1, <2>1, <2>2
<1>4. CASE Activate \/ Activated
  <2>1. Gtk \in Conns
    BY Threads
  <2>2. ProfileStep(Gtk)
    BY <1>4 DEF Activate, Activated, ProfileStep
  <2>. QED
    BY <1>1, <2>1, <2>2
<1>5. CASE FlipSwitch
  <2>1. Statement /\ call' = call
    BY <1>0, <1>5, FlipSwitchKeeps DEF Statement
  <2>. QED
    BY <1>0, <2>1, StatementKeepsTables DEF IInv
<1>6. ASSUME NEW c \in Installers, Install(c)
      PROVE  IInv'
  <2>1. c \in Conns
    BY Threads
  <2>2. ModListStep(c)
    BY <1>6 DEF Install, ModListStep
  <2>. QED
    BY <1>1, <2>1, <2>2
<1>. QED
  BY <1>2, <1>3, <1>4, <1>5, <1>6, WindowWrites

-----------------------------------------------------------------------------
\* A thread goes on: either it is now on the way to activate a profile, or a
\* profile is active, or it was not on that way and no profile came.
LEMMA ActivationKeeps ==
  ASSUME IInv, ActiveInv, NEW c \in Conns, NEW k, Continue(c, k),
         profiles \subseteq profiles',
         k.at \in {"activate", "setActive"} => k.pid \in profiles',
         \/ k.at \in {"activate", "setActive"}
         \/ active' # {}
         \/ ~ Activating(c) /\ UNCHANGED <<profiles, active>>
  PROVE  ActiveInv'
<1>1. call'[c] = k /\ \A d \in Conns : d # c => call'[d] = call[d]
  BY DEF IInv, Continue
<1>2. ASSUME NEW d \in Conns, Activating(d)'
      PROVE  call'[d].pid \in profiles'
  BY <1>1, <1>2 DEF ActiveInv, Activating
<1>3. ASSUME profiles' # {}
      PROVE  active' # {} \/ \E d \in Conns : Activating(d)'
  BY <1>1, <1>3 DEF ActiveInv, Activating
<1>. QED
  BY <1>2, <1>3 DEF ActiveInv, Activating

LEMMA ActiveStays ==
  ASSUME ActiveInv, UNCHANGED <<call, profiles, active>>
  PROVE  ActiveInv'
BY DEF ActiveInv, Activating

LEMMA EnsureActivates ==
  ASSUME WindowInv, NEW c \in Loaders, Ensure(c) \/ EnsureRefused(c)
  PROVE  ActiveInv'
<1>0. IInv /\ ActiveInv /\ c \in Conns
  BY Threads DEF WindowInv
<1>i. Idle.at = "idle"
  BY DEF Idle
<1>1. CASE EnsureDefault(c)
  <2>. DEFINE k == [Idle EXCEPT !.at = "ensureInsert", !.key = DefaultName]
  <2>1. call[c].at = "idle" /\ Continue(c, k) /\ UNCHANGED tables
    BY <1>1 DEF EnsureDefault, Begin
  <2>2. k.at = "ensureInsert"
    BY DEF Idle
  <2>. HIDE DEF k
  <2>. QED
    BY <1>0, <2>1, <2>2, ActivationKeeps DEF Activating, tables
<1>2. CASE InsertDefault(c)
  <2>1. PICK p \in ProfileIds :
          InsertProfileRow(p) /\ Continue(c, [Idle EXCEPT !.at = "activate", !.pid = p])
    BY <1>2 DEF InsertDefault
  <2>. DEFINE k == [Idle EXCEPT !.at = "activate", !.pid = p]
  <2>2. k.at = "activate" /\ k.pid = p
    BY DEF Idle
  <2>3. Continue(c, k) /\ profiles' = profiles \cup {p}
    BY <2>1 DEF InsertProfileRow
  <2>. HIDE DEF k
  <2>. QED
    BY <1>0, <2>2, <2>3, ActivationKeeps
<1>3. CASE ActivateDefault(c)
  <2>. DEFINE k == [call[c] EXCEPT !.at = "setActive"]
  <2>1. call[c].at = "activate" /\ UNCHANGED tables /\ call[c] \in Calls
    BY <1>0, <1>3 DEF ActivateDefault, IInv, GoodCalls
  <2>2. call[c].pid \in profiles
    BY <1>0, <2>1 DEF ActiveInv, Activating
  <2>3. Continue(c, k)
    BY <1>3, <2>2 DEF ActivateDefault
  <2>4. k.at = "setActive" /\ k.pid = call[c].pid
    BY <2>1 DEF Calls
  <2>. HIDE DEF k
  <2>. QED
    BY <1>0, <2>1, <2>2, <2>3, <2>4, ActivationKeeps DEF tables
<1>4. CASE CommitActive(c)
  <2>1. call[c].pid \in profiles
    BY <1>0, <1>4 DEF CommitActive, ActiveInv, Activating
  <2>2. Continue(c, Idle) /\ profiles' = profiles /\ active' # {}
    BY <1>4, <2>1 DEF CommitActive, SetSoleActive, Return
  <2>. QED
    BY <1>0, <1>i, <2>2, ActivationKeeps
<1>5. CASE InsertNameRefused(c)
  <2>1. Continue(c, Idle) /\ UNCHANGED tables /\ ~ Activating(c)
    BY <1>5 DEF InsertNameRefused, Return, Activating
  <2>. QED
    BY <1>0, <1>i, <2>1, ActivationKeeps DEF tables
<1>. QED
  BY <1>1, <1>2, <1>3, <1>4, <1>5 DEF Ensure, EnsureRefused

LEMMA ClickActivates ==
  ASSUME WindowInv, Activate \/ Activated
  PROVE  ActiveInv'
<1>0. IInv /\ ActiveInv /\ Gtk \in Conns
  BY Threads DEF WindowInv
<1>1. CASE Activate
  <2>1. PICK p \in profiles : Begin(Gtk, [Idle EXCEPT !.at = "setActive", !.pid = p])
    BY <1>1 DEF Activate, SetActive
  <2>. DEFINE k == [Idle EXCEPT !.at = "setActive", !.pid = p]
  <2>2. k.at = "setActive" /\ k.pid = p
    BY DEF Idle
  <2>3. Continue(Gtk, k) /\ profiles' = profiles
    BY <1>1, <2>1 DEF Activate, SetActive, Begin, tables
  <2>. HIDE DEF k
  <2>. QED
    BY <1>0, <2>2, <2>3, ActivationKeeps
<1>2. CASE Activated
  <2>1. call[Gtk].pid \in profiles
    BY <1>0, <1>2 DEF Activated, CommitActive, ActiveInv, Activating
  <2>2. Continue(Gtk, Idle) /\ profiles' = profiles /\ active' # {}
    BY <1>2, <2>1 DEF Activated, CommitActive, SetSoleActive, Return
  <2>. QED
    BY <1>0, <2>2, ActivationKeeps DEF Idle
<1>. QED
  BY <1>1, <1>2

\* The loop of clone_profile apart, an add ends in a statement of its own.
LEMMA AfterAddIsElsewhere ==
  ASSUME NEW k \in Calls
  PROVE  AfterAdd(k).at \in {"idle", "count"}
BY DEF AfterAdd, Idle, Calls

LEMMA InstallActivates ==
  ASSUME WindowInv, NEW c \in Installers, Install(c)
  PROVE  ActiveInv'
<1>. DEFINE k == call[c]
<1>0. IInv /\ ActiveInv /\ c \in Conns /\ k \in Calls
  BY Threads DEF WindowInv, IInv, GoodCalls
<1>i. Idle.at = "idle"
  BY DEF Idle
<1>1. UNCHANGED <<profiles, active>>
  BY DEF Install, InstallMod, InsertMod, InsertModRow, InsertModRefused, ReadActive, CountRow,
         ReadMaxPriority, InsertProfileMod, InsertRow, InsertRefused, tables
<1>2. ~ Activating(c)
  BY DEF Install, InstallMod, Begin, InsertMod, InsertModRefused, ReadActive, CountRow,
         ReadMaxPriority, InsertProfileMod, InsertRefused, Activating
<1>3. \E r : Continue(c, r) /\ r.at \notin {"activate", "setActive"}
  <2>1. CASE InstallMod(c)
    <3>1. \A m : [Idle EXCEPT !.at = "readActive", !.mid = m].at = "readActive"
      BY DEF Idle
    <3>2. \A s : [Idle EXCEPT !.at = "insertMod", !.key = s].at = "insertMod"
      BY DEF Idle
    <3>. QED
      BY <2>1, <3>1, <3>2 DEF InstallMod, Begin
  <2>2. CASE InsertMod(c)
    <3>1. \A m : [Idle EXCEPT !.at = "readActive", !.mid = m].at = "readActive"
      BY DEF Idle
    <3>. QED
      BY <2>2, <3>1 DEF InsertMod
  <2>3. CASE InsertModRefused(c) \/ InsertRefused(c)
    BY <1>i, <2>3 DEF InsertModRefused, InsertRefused, Return
  <2>4. CASE ReadActive(c)
    <3>1. \A p : [k EXCEPT !.at = "count", !.pid = p].at = "count"
      BY <1>0 DEF Calls
    <3>. QED
      BY <1>i, <2>4, <3>1 DEF ReadActive, Return
  <2>5. CASE CountRow(c)
    <3>1. [k EXCEPT !.at = "max"].at = "max"
      BY <1>0 DEF Calls
    <3>. QED
      BY <1>0, <2>5, <3>1, AfterAddIsElsewhere DEF CountRow
  <2>6. CASE ReadMaxPriority(c)
    <3>1. \A n : [k EXCEPT !.at = "insert", !.next = n].at = "insert"
      BY <1>0 DEF Calls
    <3>. QED
      BY <2>6, <3>1 DEF ReadMaxPriority
  <2>7. CASE InsertProfileMod(c)
    BY <1>0, <2>7, AfterAddIsElsewhere DEF InsertProfileMod
  <2>. QED
    BY <2>1, <2>2, <2>3, <2>4, <2>5, <2>6, <2>7 DEF Install
<1>. QED
  BY <1>0, <1>1, <1>2, <1>3, ActivationKeeps

LEMMA ActiveKeeps ==
  ASSUME WindowInv, [WindowNext]_allVars
  PROVE  ActiveInv'
<1>1. CASE UNCHANGED vars
  BY <1>1, ActiveStays DEF WindowInv, vars, tables
<1>2. CASE FlipSwitch
  BY <1>2, ActiveStays DEF WindowInv, FlipSwitch, SetEnabledFlag
<1>. QED
  BY <1>1, <1>2, WindowWrites, EnsureActivates, ClickActivates, InstallActivates

-----------------------------------------------------------------------------
\* A new database, and the database of an earlier session.
LEMMA WindowStarts == WindowInit => WindowInv
<1> SUFFICES ASSUME WindowInit PROVE WindowInv
  OBVIOUS
<1>1. TablesInv /\ (profiles # {} => active # {})
  <2>1. CASE EmptyDb
    BY <2>1 DEF EmptyDb, TablesInv, TablesTypeOK, RowsHaveOwners, PrioritiesUnique,
                AtMostOneActive, ModsIn
  <2>2. CASE EarlierSession
    <3>1. PICK p \in ProfileIds, f \in [ModIds -> 1 .. Cardinality(ModIds)] :
            /\ OneToOne(f)
            /\ profiles = ProfileIds /\ active = {p} /\ mods = ModIds
            /\ prio = [q \in ProfileIds |-> f]
            /\ enabled = [q \in ProfileIds |-> ModIds]
            /\ spent = [profiles |-> ProfileIds, mods |-> ModIds]
      BY <2>2 DEF EarlierSession
    <3>2. f \in [ModIds -> Nat] /\ \A m \in ModIds : f[m] # 0
      <4>1. Cardinality(ModIds) \in Nat
        BY IdsAssumption, FS_CardinalityType
      <4>. QED
        BY <4>1
    <3>3. TablesTypeOK
      BY <3>1, <3>2 DEF TablesTypeOK
    <3>4. RowsHaveOwners /\ AtMostOneActive
      BY <3>1, <3>2 DEF RowsHaveOwners, AtMostOneActive
    <3>5. PrioritiesUnique
      BY <3>1, <3>2 DEF PrioritiesUnique, ModsIn, OneToOne
    <3>. QED
      BY <3>1, <3>3, <3>4, <3>5 DEF TablesInv
  <2>. QED
    BY <2>1, <2>2 DEF WindowInit
<1>2. IInv
  BY <1>1, IdleIsGood DEF WindowInit, IInv
<1>3. ActiveInv
  BY <1>1 DEF WindowInit, ActiveInv, Activating, Idle
<1>4. \A c \in Loaders : load[c] \in LoadRecords /\ LoadGood(load[c])
  <2>1. AtOpen(schema) \in {"open", "ensure"}
    BY DEF AtOpen
  <2>. DEFINE a(c) == IF c = Worker THEN AtOpen(schema) ELSE "idle"
  <2>2. ASSUME NEW c \in Loaders
        PROVE  /\ load[c] = [at |-> a(c), scope |-> "Full", snap |-> Placeholder]
               /\ a(c) \in {"open", "ensure", "idle"}
    BY <2>1 DEF WindowInit
  <2>. HIDE DEF a
  <2>3. ASSUME NEW x \in {"open", "ensure", "idle"}
        PROVE  [at |-> x, scope |-> "Full", snap |-> Placeholder] \in LoadRecords
    BY PlaceholderIsGood DEF LoadRecords
  <2>4. ASSUME NEW x \in {"open", "ensure", "idle"}
        PROVE  LoadGood([at |-> x, scope |-> "Full", snap |-> Placeholder])
    <3>. DEFINE r == [at |-> x, scope |-> "Full", snap |-> Placeholder]
    <3>1. r.at \notin {"mods", "send"} /\ r.scope = "Full" /\ r.snap = Placeholder
      OBVIOUS
    <3>. HIDE DEF r
    <3>2. LoadGood(r)
      BY <3>1, PlaceholderIsGood DEF LoadGood
    <3>. QED
      BY <3>2 DEF r
  <2>. QED
    BY <2>2, <2>3, <2>4
<1>5. <<>> \in Seq(Snapshots) /\ DOMAIN <<>> = {}
  OBVIOUS
<1>6. load \in [Loaders -> LoadRecords] /\ gtk \in GtkRecords
  BY <1>4 DEF WindowInit, GtkRecords
<1>7. WindowTypes
  <2>1. schema \in BOOLEAN /\ scanned \in BOOLEAN /\ failed \in BOOLEAN
    BY DEF WindowInit
  <2>2. subs = 0
    BY DEF WindowInit
  <2>3. chan \in Seq(Snapshots) /\ shown \in Snapshots
    BY <1>5, PlaceholderIsGood DEF WindowInit
  <2>. QED
    BY <1>6, <2>1, <2>2, <2>3 DEF WindowTypes
<1>8. DOMAIN shown.order = {} /\ SnapGood(shown)
  BY <1>5, PlaceholderIsGood DEF WindowInit, Placeholder
<1>9. FlowInv
  BY <1>4, <1>5, <1>8 DEF WindowInit, FlowInv
<1>. QED
  BY <1>2, <1>3, <1>7, <1>9 DEF WindowInv

LEMMA WindowInvariant == WindowSpec => []WindowInv
<1>1. WindowInv /\ [WindowNext]_allVars => WindowInv'
  BY WindowKeeps, DatabaseKeeps, ActiveKeeps DEF WindowInv
<1>. QED
  BY <1>1, WindowStarts, PTL DEF WindowSpec

\* However the worker, the reloads, the handlers of the window and the installs
\* run through each other, on a new database and on an old one: everything read
\* and sent is fit to be shown, exactly one profile is active whenever no thread
\* is in the middle of an operation (ensure_default inserts and activates in two
\* steps), and no snapshot carries the plugin list from before the first scan.
THEOREM WindowIsSound == WindowSpec => []StateSound
<1>1. WindowInv => WindowTypeOK
  BY DEF WindowInv, WindowTypes, LoadRecords, GtkRecords, IInv, TablesInv, GoodCalls, TypeOK,
         CallTypeOK, WindowTypeOK
<1>2. WindowInv => OneActiveWhenQuiet
  <2> SUFFICES ASSUME WindowInv, Quiet, profiles # {}
               PROVE  \E p \in profiles : active = {p}
    BY DEF OneActiveWhenQuiet
  <2>1. \A c \in Conns : ~ Activating(c)
    BY DEF Quiet, Activating
  <2>2. PICK p \in active : TRUE
    BY <2>1 DEF WindowInv, ActiveInv
  <2>3. p \in profiles /\ \A q \in active : q = p
    BY DEF WindowInv, IInv, TablesInv, TablesTypeOK, AtMostOneActive
  <2>. QED
    BY <2>3
<1>3. WindowInv => PluginsKnown
  BY DEF WindowInv, FlowInv, PluginsKnown
<1>. QED
  BY <1>1, <1>2, <1>3, WindowInvariant, PTL DEF StateSound
=============================================================================
