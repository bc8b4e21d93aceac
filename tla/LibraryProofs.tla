---------------------------- MODULE LibraryProofs ----------------------------
(***************************************************************************)
(* Proofs about the parts of the program that share no state with each     *)
(* other, one part after the other: first what is true of a part by        *)
(* itself, then, at the end, what follows for Library, where one moves.    *)
(* The parts that edit what others wrote are in EditProofs.                *)
(***************************************************************************)
EXTENDS Library, Integers, FiniteSetTheorems, WellFoundedInduction, TLAPS

(***************************************************************************)
(* GameDetection: one scan, and one game, per process.                     *)
(***************************************************************************)

DetectSpec == Games!DetectInit /\ [][Games!DetectNext]_(Games!detectVars)

\* Nobody has a game before the scan ends, and then it is the game that is kept.
CellInv ==
  /\ DOMAIN cell = {"state", "by", "game"}
  /\ cell.state \in {"empty", "busy", "failed", "full"}
  /\ cell.state \in {"empty", "busy"} => everGot = {}
  /\ cell.state \in {"failed", "full"} => everGot \subseteq {cell.game}

\* CACHED_GAME, for any manifests and loaders: whoever loads a state in the life of a
\* process is given the same game, or the same lack of one, whatever Steam does.
THEOREM OneGameIsKept == DetectSpec => []Games!OneGamePerProcess
<1>1. Games!DetectInit => CellInv
  BY DEF Games!DetectInit, Games!Empty, CellInv
<1>2. CellInv /\ [Games!DetectNext]_(Games!detectVars) => CellInv'
  <2>1. SUFFICES ASSUME CellInv, [Games!DetectNext]_(Games!detectVars) PROVE CellInv'
    OBVIOUS
  <2>2. CASE Games!ScanFails
    <3>1. /\ cell' = [cell EXCEPT !.state = "failed", !.game = Games!NoGame]
          /\ cell.state = "busy" /\ everGot' = everGot \cup {Games!NoGame}
      BY <2>2 DEF Games!ScanFails
    <3>2. cell'.state = "failed" /\ cell'.game = Games!NoGame
          /\ DOMAIN cell' = DOMAIN cell
      BY <2>1, <3>1 DEF CellInv
    <3>. QED
      BY <2>1, <3>1, <3>2 DEF CellInv
  <2>3. CASE Games!EndScan
    <3>1. PICK game : /\ cell' = [state |-> "full", by |-> cell.by, game |-> game]
                      /\ cell.state = "busy" /\ everGot' = everGot \cup {game}
      BY <2>3 DEF Games!EndScan
    <3>. QED
      BY <2>1, <3>1 DEF CellInv
  <2>4. ASSUME NEW t \in Loaders, Games!StartScan(t) \/ Games!TakeCached(t)
        PROVE  CellInv'
    BY <2>1, <2>4 DEF CellInv, Games!StartScan, Games!CanFill, Games!TakeCached
  <2>5. CASE Games!Restart
    BY <2>5 DEF CellInv, Games!Restart, Games!Empty
  <2>6. CASE cell' = cell /\ everGot' = everGot
    BY <2>1, <2>6 DEF CellInv
  <2>. QED
    BY <2>1, <2>2, <2>3, <2>4, <2>5, <2>6 DEF Games!DetectNext, Games!ScanStep,
       Games!ReadManifest, Games!ReadRegistries, Games!Deliver, Games!SteamChanges,
       Games!detectVars
<1>3. CellInv => Games!OneGamePerProcess
  BY DEF CellInv, Games!OneGamePerProcess
<1>. QED
  BY <1>1, <1>2, <1>3, PTL DEF DetectSpec

\* The manifests have places from 1 on.
LEMMA PlacesAreNumbers ==
  \E n \in Nat : n = Len(Manifests) /\ DOMAIN Manifests = 1 .. n
BY ListsAndNumbers

\* What is known of the places the scan has read.
Before(n) == {i \in Games!Places : i < n /\ Games!Detected(i)}
Leads(games, there) ==
  \/ there = {} /\ games = <<>>
  \/ \E m \in there :
       /\ \A i \in there : m <= i
       /\ games # <<>> /\ games[1] = Games!Info(m)

\* Before the scan ends its list begins with the first game that is there, and what
\* the registries add comes behind.
ScanInv ==
  /\ DOMAIN cell = {"state", "by", "game"}
  /\ cell.state = "busy" =>
       /\ DOMAIN scan = {"at", "games", "extras"}
       /\ scan.at \in Nat /\ scan.at >= 1
       /\ \E U : scan.games \in Seq(U)
       /\ \E U : scan.extras \in Seq(U)
       /\ scan.games = <<>> => scan.extras = <<>>
       /\ ~ stirred => Leads(scan.games, Before(scan.at))
  /\ Games!FirstGameWins

LEMMA MinIs ==
  ASSUME NEW S, S \subseteq Nat, NEW x \in S, \A y \in S : x <= y
  PROVE  Games!Min(S) = x
<1>1. \A z \in S : (\A y \in S : z <= y) => z = x
  <2>1. SUFFICES ASSUME NEW z \in S, \A y \in S : z <= y PROVE z = x
    OBVIOUS
  <2>2. z <= x /\ x <= z /\ x \in Nat /\ z \in Nat
    BY <2>1
  <2>. QED
    BY <2>2
<1>. QED
  BY <1>1 DEF Games!Min

\* The first element of a set of positions with 1 in it.
LEMMA FirstOfSet ==
  ASSUME NEW S, IsFiniteSet(S), S \subseteq Nat, 1 \in S, \A k \in S : 1 <= k
  PROVE  Games!Nth(S, 1) = 1 /\ Games!Cardinality(S) \in Nat /\ 1 <= Games!Cardinality(S)
<1>1. \A T : Games!Cardinality(T) = Cardinality(T)
  BY DEF Games!Cardinality, Cardinality
<1>2. Cardinality({j \in S : j <= 1}) = 1
  <2>1. \A j \in S : j <= 1 <=> j = 1
    OBVIOUS
  <2>2. {j \in S : j <= 1} = {1}
    BY <2>1
  <2>. QED
    BY <2>2, FS_Singleton
<1>3. \A k \in S : Cardinality({j \in S : j <= k}) = 1 => k = 1
  <2>1. SUFFICES ASSUME NEW k \in S, Cardinality({j \in S : j <= k}) = 1 PROVE k = 1
    OBVIOUS
  <2>2. IsFiniteSet({j \in S : j <= k})
    BY FS_Subset
  <2>3. PICK x : {j \in S : j <= k} = {x}
    BY <2>1, <2>2, FS_Singleton
  <2>4. 1 \in {j \in S : j <= k} /\ k \in {j \in S : j <= k}
    BY <2>1
  <2>. QED
    BY <2>3, <2>4
<1>4. Cardinality(S) \in Nat /\ Cardinality(S) # 0
  BY FS_CardinalityType, FS_EmptySet
<1>. QED
  BY <1>1, <1>2, <1>3, <1>4 DEF Games!Nth

\* Leaving out repetitions keeps the first game.
LEMMA UniqueKeepsFirst ==
  ASSUME NEW U, NEW games \in Seq(U)
  PROVE  /\ games = <<>> => Games!Unique(games) = <<>>
         /\ games # <<>> => Games!Unique(games) # <<>> /\ Head(Games!Unique(games)) = games[1]
<1>1. PICK firsts : firsts = {i \in DOMAIN games :
                        \A j \in 1 .. i - 1 : games[j].app # games[i].app}
  OBVIOUS
<1>2. Games!Unique(games)
        = [i \in 1 .. Games!Cardinality(firsts) |-> games[Games!Nth(firsts, i)]]
  BY <1>1 DEF Games!Unique
<1>3. CASE games = <<>>
  <2>1. firsts = {}
    BY <1>1, <1>3
  <2>2. Games!Cardinality(firsts) = 0
    BY <2>1, FS_EmptySet DEF Games!Cardinality, Cardinality
  <2>3. [i \in 1 .. 0 |-> games[Games!Nth(firsts, i)]] = <<>>
    OBVIOUS
  <2>. QED
    BY <1>2, <1>3, <2>2, <2>3
<1>4. CASE games # <<>>
  <2>1. 1 \in DOMAIN games /\ Len(games) \in Nat /\ DOMAIN games = 1 .. Len(games)
    BY <1>4
  <2>2. IsFiniteSet(firsts)
    <3>1. IsFiniteSet(1 .. Len(games)) 
      BY <2>1, FS_Interval
    <3>. QED
      BY <1>1, <2>1, <3>1, FS_Subset
  <2>3. 1 \in firsts /\ firsts \subseteq Nat /\ \A k \in firsts : 1 <= k
    BY <1>1, <2>1
  <2>4. /\ Games!Nth(firsts, 1) = 1 /\ Games!Cardinality(firsts) \in Nat
        /\ 1 <= Games!Cardinality(firsts)
    BY <2>2, <2>3, FirstOfSet
  <2>5. PICK u : u = [i \in 1 .. Games!Cardinality(firsts) |-> games[Games!Nth(firsts, i)]]
    OBVIOUS
  <2>6. 1 \in DOMAIN u /\ u[1] = games[1]
    BY <2>4, <2>5
  <2>7. u # <<>> /\ Head(u) = u[1]
    BY <2>6
  <2>. QED
    BY <1>2, <1>4, <2>5, <2>6, <2>7
<1>. QED
  BY <1>3, <1>4

LEMMA ReadKeepsLead ==
  ASSUME ScanInv, Games!ReadManifest
  PROVE  ScanInv'
<1>1. cell.state = "busy" /\ scan.at \in Games!Places /\ scan.at \in Nat /\ scan.at >= 1
  BY DEF Games!ReadManifest, ScanInv
<1>2. PICK games : games = IF Games!Detected(scan.at)
                             THEN Append(scan.games, Games!Info(scan.at)) ELSE scan.games
  OBVIOUS
<1>3. scan' = [scan EXCEPT !.at = @ + 1, !.games = games]
  BY <1>2 DEF Games!ReadManifest
<1>4. DOMAIN scan = {"at", "games", "extras"}
  BY <1>1 DEF ScanInv
<1>5. /\ scan'.at = scan.at + 1 /\ scan'.games = games /\ scan'.extras = scan.extras
      /\ DOMAIN scan' = {"at", "games", "extras"}
  BY <1>3, <1>4
<1>6. /\ cell' = cell /\ stirred' = stirred /\ disk' = disk /\ readable' = readable
      /\ prefix' = prefix
  BY DEF Games!ReadManifest
<1>7. \A i : (Games!Detected(i))' = Games!Detected(i) /\ Games!Info(i)' = Games!Info(i)
  BY <1>6 DEF Games!Detected, Games!Info
<1>8. PICK U : scan.games \in Seq(U)
  BY <1>1 DEF ScanInv
<1>9. games \in Seq(U \cup {Games!Info(scan.at)})
  BY <1>2, <1>8
<1>10. games = <<>> => scan.games = <<>>
  BY <1>2, <1>8
<1>11. \A i \in Games!Places : i \in Nat
  BY PlacesAreNumbers DEF Games!Places
<1>12. ASSUME ~ stirred PROVE Leads(scan.games, Before(scan.at))'
  <2>1. Leads(scan.games, Before(scan.at))
    BY <1>1, <1>12 DEF ScanInv
  <2>2. PICK there : there = Before(scan.at)
    OBVIOUS
  <2>3. PICK more : more = Before(scan.at)'
    OBVIOUS
  <2>4. \A i : i \in more <=> i \in Games!Places /\ i < scan.at + 1 /\ Games!Detected(i)
    BY <2>3, <1>5, <1>7 DEF Before, Games!Places
  <2>5. \A i : i \in there <=> i \in Games!Places /\ i < scan.at /\ Games!Detected(i)
    BY <2>2 DEF Before
  <2>6. \A i \in Games!Places : i < scan.at + 1 <=> i < scan.at \/ i = scan.at
    BY <1>1, <1>11
  <2>7. \/ there = {} /\ scan.games = <<>>
        \/ \E m \in there :
             /\ \A i \in there : m <= i
             /\ scan.games # <<>> /\ scan.games[1] = Games!Info(m)
    BY <2>1, <2>2 DEF Leads
  <2>8. \/ more = {} /\ games = <<>>
        \/ \E m \in more :
             /\ \A i \in more : m <= i
             /\ games # <<>> /\ games[1] = Games!Info(m)
    <3>1. CASE ~ Games!Detected(scan.at)
      <4>1. more = there
        BY <2>4, <2>5, <2>6, <3>1
      <4>. QED
        BY <1>2, <2>7, <3>1, <4>1
    <3>2. CASE Games!Detected(scan.at) /\ there = {}
      <4>1. \A i : i \in more <=> i = scan.at
        BY <1>1, <2>4, <2>5, <2>6, <3>2
      <4>2. games = Append(scan.games, Games!Info(scan.at)) /\ scan.games = <<>>
        BY <1>2, <2>7, <3>2
      <4>3. games # <<>> /\ games[1] = Games!Info(scan.at)
        BY <4>2
      <4>. QED
        BY <1>1, <4>1, <4>3
    <3>3. CASE Games!Detected(scan.at) /\ there # {}
      <4>1. PICK m \in there : /\ \A i \in there : m <= i
                               /\ scan.games # <<>> /\ scan.games[1] = Games!Info(m)
        BY <2>7, <3>3
      <4>2. games = Append(scan.games, Games!Info(scan.at))
        BY <1>2, <3>3
      <4>3. games # <<>> /\ games[1] = scan.games[1]
        BY <1>8, <4>1, <4>2
      <4>4. m \in more /\ m <= scan.at
        BY <1>1, <1>11, <2>4, <2>5, <2>6, <4>1
      <4>5. \A i \in more : m <= i
        BY <1>1, <2>4, <2>5, <2>6, <4>1, <4>4
      <4>. QED
        BY <4>1, <4>3, <4>4, <4>5
    <3>. QED
      BY <3>1, <3>2, <3>3
  <2>. QED
    BY <1>5, <1>7, <2>3, <2>8 DEF Leads
<1>13. Games!FirstGameWins'
  BY <1>1, <1>6 DEF Games!FirstGameWins
<1>14. DOMAIN cell' = {"state", "by", "game"}
  BY <1>6 DEF ScanInv
<1>15. /\ scan'.at \in Nat /\ scan'.at >= 1
       /\ \E V : scan'.games \in Seq(V)
       /\ \E V : scan'.extras \in Seq(V)
       /\ scan'.games = <<>> => scan'.extras = <<>>
  BY <1>1, <1>5, <1>9, <1>10 DEF ScanInv
<1>16. ~ stirred' => Leads(scan.games, Before(scan.at))'
  BY <1>6, <1>12
<1>. QED
  BY <1>5, <1>13, <1>14, <1>15, <1>16 DEF ScanInv

LEMMA RegistriesKeepLead ==
  ASSUME ScanInv, Games!ReadRegistries
  PROVE  ScanInv'
<1>1. cell.state = "busy" /\ scan.at = Len(Manifests) + 1
  BY DEF Games!ReadRegistries
<1>2. /\ cell' = cell /\ stirred' = stirred /\ disk' = disk /\ readable' = readable
      /\ prefix' = prefix
  BY DEF Games!ReadRegistries
<1>3. /\ DOMAIN scan = {"at", "games", "extras"} /\ scan.at \in Nat /\ scan.at >= 1
      /\ scan.games = <<>> => scan.extras = <<>>
  BY <1>1 DEF ScanInv
<1>4. PICK U : scan.games \in Seq(U)
  BY <1>1 DEF ScanInv
<1>5. PICK mores \in SUBSET {i \in DOMAIN scan.games : scan.games[i].proton} :
        scan' = [scan EXCEPT !.at = @ + 1,
                   !.extras = [i \in 1 .. Games!Cardinality(mores) |->
                     [scan.games[Games!Nth(mores, i)] EXCEPT !.at = None]]]
  BY DEF Games!ReadRegistries
<1>6. PICK extras :
        extras = [i \in 1 .. Games!Cardinality(mores) |->
                     [scan.games[Games!Nth(mores, i)] EXCEPT !.at = None]]
  OBVIOUS
<1>7. /\ scan'.at = scan.at + 1 /\ scan'.games = scan.games /\ scan'.extras = extras
      /\ DOMAIN scan' = {"at", "games", "extras"}
  BY <1>3, <1>5, <1>6
<1>8. IsFiniteSet(mores)
  <2>1. IsFiniteSet(1 .. Len(scan.games)) /\ DOMAIN scan.games = 1 .. Len(scan.games)
    BY <1>4, FS_Interval
  <2>. QED
    BY <1>5, <2>1, FS_Subset
<1>9. Games!Cardinality(mores) = Cardinality(mores) /\ Cardinality(mores) \in Nat
  BY <1>8, FS_CardinalityType DEF Games!Cardinality, Cardinality
<1>10. PICK n \in Nat : n = Games!Cardinality(mores)
  BY <1>9
<1>11. PICK V : V = {extras[i] : i \in 1 .. n}
  OBVIOUS
<1>12. extras \in Seq(V)
  <2>1. extras \in [1 .. n -> V]
    BY <1>6, <1>10, <1>11
  <2>. QED
    BY <2>1
<1>13. scan.games = <<>> => extras = <<>>
  <2>1. SUFFICES ASSUME scan.games = <<>> PROVE extras = <<>>
    OBVIOUS
  <2>2. mores = {}
    BY <1>5, <2>1
  <2>3. n = 0
    BY <1>9, <1>10, <2>2, FS_EmptySet
  <2>4. DOMAIN extras = 1 .. 0
    BY <1>6, <1>10, <2>3
  <2>. QED
    BY <1>12, <2>4
<1>14. ~ stirred' => Leads(scan.games, Before(scan.at))'
  <2>1. SUFFICES ASSUME ~ stirred PROVE Leads(scan.games, Before(scan.at))'
    BY <1>2
  <2>2. Leads(scan.games, Before(scan.at))
    BY <1>1, <2>1 DEF ScanInv
  <2>3. \A i : (Games!Detected(i))' = Games!Detected(i) /\ Games!Info(i)' = Games!Info(i)
    BY <1>2 DEF Games!Detected, Games!Info
  <2>4. \A i \in Games!Places : i < scan.at /\ i < scan.at + 1
    BY <1>1, PlacesAreNumbers DEF Games!Places
  <2>5. PICK there : there = Before(scan.at)
    OBVIOUS
  <2>6. there = Before(scan.at)'
    BY <1>7, <2>3, <2>4, <2>5 DEF Before, Games!Places
  <2>. QED
    BY <1>7, <2>2, <2>3, <2>5, <2>6 DEF Leads
<1>15. Games!FirstGameWins'
  BY <1>1, <1>2 DEF Games!FirstGameWins
<1>16. DOMAIN cell' = {"state", "by", "game"}
  BY <1>2 DEF ScanInv
<1>17. \E W : scan'.games \in Seq(W)
  BY <1>4, <1>7
<1>18. \E W : scan'.extras \in Seq(W)
  BY <1>7, <1>12
<1>19. scan'.at \in Nat /\ scan'.at >= 1
  BY <1>3, <1>7
<1>20. scan'.games = <<>> => scan'.extras = <<>>
  BY <1>7, <1>13
<1>. QED
  BY <1>7, <1>14, <1>15, <1>16, <1>17, <1>18, <1>19, <1>20 DEF ScanInv

\* The first element of two lists in a row, when the first list is not empty.
LEMMA FirstOfBoth ==
  ASSUME NEW W, NEW g \in Seq(W), NEW e \in Seq(W), g # <<>>
  PROVE  g \o e # <<>> /\ (g \o e)[1] = g[1]
<1>1. Len(g) \in Nat /\ Len(g) # 0 /\ Len(e) \in Nat
  OBVIOUS
<1>2. 1 \in 1 .. Len(g)
  BY <1>1
<1>3. (g \o e)[1] = g[1]
  BY <1>2
<1>4. Len(g \o e) = Len(g) + Len(e)
  OBVIOUS
<1>. QED
  BY <1>1, <1>3, <1>4

LEMMA EndKeepsLead ==
  ASSUME ScanInv, Games!EndScan
  PROVE  ScanInv'
<1>1. cell.state = "busy" /\ scan.at = Len(Manifests) + 2
  BY DEF Games!EndScan
<1>2. PICK game : /\ game = Games!FirstOf(Games!Unique(scan.games \o scan.extras))
                  /\ cell' = [state |-> "full", by |-> cell.by, game |-> game]
  BY DEF Games!EndScan
<1>3. /\ stirred' = stirred /\ disk' = disk /\ readable' = readable /\ prefix' = prefix
  BY DEF Games!EndScan
<1>4. PICK U : scan.games \in Seq(U)
  BY <1>1 DEF ScanInv
<1>5. PICK V : scan.extras \in Seq(V)
  BY <1>1 DEF ScanInv
<1>6. PICK both : both = scan.games \o scan.extras
  OBVIOUS
<1>7. both \in Seq(U \cup V)
  BY <1>4, <1>5, <1>6
<1>8. cell'.state = "full" /\ cell'.game = game /\ DOMAIN cell' = {"state", "by", "game"}
  BY <1>2
<1>9. \A i : (Games!Detected(i))' = Games!Detected(i) /\ Games!Info(i)' = Games!Info(i)
  BY <1>3 DEF Games!Detected, Games!Info
<1>10. PICK there : there = {i \in Games!Places : Games!Detected(i)}
  OBVIOUS
<1>11. ASSUME ~ stirred
       PROVE  game = IF there = {} THEN Games!NoGame ELSE Games!Info(Games!Min(there))
  <2>1. Leads(scan.games, Before(scan.at))
    BY <1>1, <1>11 DEF ScanInv
  <2>2. \A i \in Games!Places : i < scan.at
    BY <1>1, PlacesAreNumbers DEF Games!Places
  <2>3. there = Before(scan.at)
    BY <1>10, <2>2 DEF Before
  <2>4. \/ there = {} /\ scan.games = <<>>
        \/ \E m \in there :
             /\ \A i \in there : m <= i
             /\ scan.games # <<>> /\ scan.games[1] = Games!Info(m)
    BY <2>1, <2>3 DEF Leads
  <2>5. CASE there = {} /\ scan.games = <<>>
    <3>1. scan.extras = <<>>
      BY <1>1, <2>5 DEF ScanInv
    <3>2. both = <<>>
      BY <1>6, <2>5, <3>1
    <3>3. Games!Unique(both) = <<>>
      BY <1>7, <3>2, UniqueKeepsFirst
    <3>. QED
      BY <1>2, <1>6, <2>5, <3>3 DEF Games!FirstOf
  <2>6. CASE \E m \in there :
             /\ \A i \in there : m <= i
             /\ scan.games # <<>> /\ scan.games[1] = Games!Info(m)
    <3>1. PICK m \in there : /\ \A i \in there : m <= i
                             /\ scan.games # <<>> /\ scan.games[1] = Games!Info(m)
      BY <2>6
    <3>2. both # <<>> /\ both[1] = scan.games[1]
      <4>1. PICK g \in Seq(U \cup V) : g = scan.games
        BY <1>4
      <4>2. PICK e \in Seq(U \cup V) : e = scan.extras
        BY <1>5
      <4>3. g # <<>>
        BY <3>1, <4>1
      <4>. QED
        BY <1>6, <4>1, <4>2, <4>3, FirstOfBoth
    <3>3. Games!Unique(both) # <<>> /\ Head(Games!Unique(both)) = both[1]
      BY <1>7, <3>2, UniqueKeepsFirst
    <3>4. game = Games!Info(m)
      BY <1>2, <1>6, <3>1, <3>2, <3>3 DEF Games!FirstOf
    <3>5. there \subseteq Nat
      BY <1>10, PlacesAreNumbers DEF Games!Places
    <3>6. Games!Min(there) = m
      BY <3>1, <3>5, MinIs
    <3>. QED
      BY <3>1, <3>4, <3>6
  <2>. QED
    BY <2>4, <2>5, <2>6
<1>12. Games!FirstGameWins'
  <2>1. there = {i \in Games!Places : Games!Detected(i)}'
    BY <1>9, <1>10 DEF Games!Places
  <2>2. (Games!Info(Games!Min({i \in Games!Places : Games!Detected(i)})))'
          = Games!Info(Games!Min(there))
    BY <2>1, <1>3 DEF Games!Info, Games!Min
  <2>. QED
    BY <1>3, <1>8, <1>11, <2>1, <2>2 DEF Games!FirstGameWins, Games!NoGame
<1>. QED
  BY <1>8, <1>12 DEF ScanInv

LEMMA OthersKeepLead ==
  ASSUME ScanInv, [Games!DetectNext]_(Games!detectVars),
         ~ Games!ReadManifest, ~ Games!ReadRegistries, ~ Games!EndScan
  PROVE  ScanInv'
<1>1. CASE \E t \in Loaders : Games!StartScan(t)
  <2>1. PICK t \in Loaders : Games!StartScan(t)
    BY <1>1
  <2>2. cell' = [state |-> "busy", by |-> t, game |-> None] /\ stirred' = FALSE
    BY <2>1 DEF Games!StartScan
  <2>3. scan' = [Games!NoScan EXCEPT !.at = 1]
    BY <2>1 DEF Games!StartScan
  <2>4. /\ scan'.at = 1 /\ scan'.games = <<>> /\ scan'.extras = <<>>
        /\ DOMAIN scan' = {"at", "games", "extras"}
    BY <2>3 DEF Games!NoScan
  <2>5. Before(scan.at)' = {}
    BY <2>4, PlacesAreNumbers DEF Before, Games!Places
  <2>6. Leads(scan.games, Before(scan.at))'
    BY <2>4, <2>5 DEF Leads
  <2>7. <<>> \in Seq({})
    OBVIOUS
  <2>. QED
    BY <2>2, <2>4, <2>6, <2>7 DEF ScanInv, Games!FirstGameWins
<1>2. CASE Games!ScanFails
  <2>1. cell' = [cell EXCEPT !.state = "failed", !.game = Games!NoGame]
    BY <1>2 DEF Games!ScanFails
  <2>2. cell'.state = "failed" /\ DOMAIN cell' = {"state", "by", "game"}
    BY <2>1 DEF ScanInv
  <2>. QED
    BY <2>2 DEF ScanInv, Games!FirstGameWins
<1>3. CASE Games!SteamChanges
  <2>1. stirred' = TRUE /\ cell' = cell /\ scan' = scan
    BY <1>3 DEF Games!SteamChanges
  <2>. QED
    BY <2>1 DEF ScanInv, Games!FirstGameWins
<1>4. CASE Games!Restart
  <2>1. cell'.state = "empty" /\ DOMAIN cell' = {"state", "by", "game"}
    BY <1>4 DEF Games!Restart, Games!Empty
  <2>. QED
    BY <2>1 DEF ScanInv, Games!FirstGameWins
<1>5. CASE /\ disk' = disk /\ readable' = readable /\ prefix' = prefix
           /\ cell' = cell /\ scan' = scan /\ stirred' = stirred
  <2>1. \A i : (Games!Detected(i))' = Games!Detected(i) /\ Games!Info(i)' = Games!Info(i)
    BY <1>5 DEF Games!Detected, Games!Info
  <2>2. Before(scan.at)' = Before(scan.at)
    BY <1>5, <2>1 DEF Before, Games!Places
  <2>3. Leads(scan.games, Before(scan.at))' <=> Leads(scan.games, Before(scan.at))
    BY <1>5, <2>1, <2>2 DEF Leads
  <2>4. Games!FirstGameWins' <=> Games!FirstGameWins
    BY <1>5 DEF Games!FirstGameWins, Games!Detected, Games!Info, Games!Min, Games!Places,
       Games!NoGame
  <2>. QED
    BY <1>5, <2>3, <2>4 DEF ScanInv
<1>. QED
  BY <1>1, <1>2, <1>3, <1>4, <1>5 DEF Games!DetectNext, Games!ScanStep, Games!detectVars,
     Games!TakeCached, Games!Deliver

\* detect_all and load_game_state, for any manifests: when Steam changes nothing during
\* the scan, the game that is kept is the one behind the first manifest of a known
\* game whose executable is there.
THEOREM FirstGameIsTaken == DetectSpec => []Games!FirstGameWins
<1>1. Games!DetectInit => ScanInv
  BY DEF Games!DetectInit, Games!Empty, ScanInv, Games!FirstGameWins
<1>2. ScanInv /\ [Games!DetectNext]_(Games!detectVars) => ScanInv'
  BY ReadKeepsLead, RegistriesKeepLead, EndKeepsLead, OthersKeepLead
<1>3. ScanInv => Games!FirstGameWins
  BY DEF ScanInv
<1>. QED
  BY <1>1, <1>2, <1>3, PTL DEF DetectSpec

(***************************************************************************)
(* ProfileSwitch: what the game directory shows, and who is told.          *)
(***************************************************************************)

SwitchSpec == Switch!SwitchInit /\ [][Switch!SwitchNext]_(Switch!switchVars)

IniFiles == Contents \cup {None, Torn}

SwitchTypes ==
  /\ active \in Profiles \cup {None} /\ overlay \in Seq(Profiles)
  /\ farms \in BOOLEAN /\ escaped \in BOOLEAN /\ links \subseteq Profiles /\ handle \in Profiles \cup {None}
  /\ gameIni \in [Inis -> IniFiles] /\ snap \in [Profiles -> [Inis -> IniFiles]]
  /\ call \in [at : {"idle", "teardown", "activate", "mount", "apply", "snapshot"},
               to : Profiles \cup {None}, left : SUBSET Inis]
  /\ told \in Profiles \cup {None}
  /\ mixed \in BOOLEAN /\ stranded \in BOOLEAN

\* Nothing is shown between the teardown and the mount, unless something was left,
\* and at most one overlay lies there otherwise.
MountedInv ==
  /\ call.at \in {"teardown", "activate", "mount", "apply", "snapshot"} => call.to # None
  /\ call.at \in {"mount", "apply"} => active = call.to
  /\ ~ stranded /\ call.at \in {"activate", "mount"} => links = {} /\ overlay = <<>>
  /\ ~ stranded => links \subseteq {active} /\ overlay \in {<<>>, <<active>>}
  /\ call.at = "apply" => call.to \in Switch!Shown

\* What ApplyFile is done with is the snapshot's.
AppliedInv ==
  /\ told # None => call.at = "idle"
  /\ call.at = "apply" /\ ~ mixed =>
       \A f \in Inis \ call.left :
         snap[call.to][f] # None => gameIni[f] = snap[call.to][f]

SwitchInv == SwitchTypes /\ MountedInv /\ AppliedInv /\ Switch!ChangedMeansAll

\* A mount that succeeds has the files of the snapshot to copy, or the caller named
\* no place for them.
LEMMA MountGoesOn ==
  ASSUME SwitchTypes, Switch!Mount
  PROVE  \/ call' = Switch!NoCall
         \/ \E left \in SUBSET Inis :
              /\ mixed' \/ left = {f \in Inis : snap[call.to][f] # None}
              /\ call' = [call EXCEPT !.at = "apply", !.left = left]
              /\ Switch!Overlaid
<1>1. CASE call' = Switch!NoCall
  BY <1>1
<1>2. CASE Switch!Overlaid /\ Switch!Goto("apply") /\ mixed' = TRUE
  <2>1. call' = [call EXCEPT !.at = "apply", !.left = call.left] /\ call.left \in SUBSET Inis
    BY <1>2 DEF Switch!Goto, SwitchTypes
  <2>. QED
    BY <1>2, <2>1
<1>3. CASE /\ Switch!Overlaid
           /\ call' = [call EXCEPT !.at = "apply",
                                   !.left = {f \in Inis : snap[call.to][f] # None}]
  <2>1. PICK left : left = {f \in Inis : snap[call.to][f] # None}
    OBVIOUS
  <2>2. call' = [call EXCEPT !.at = "apply", !.left = left]
    BY <1>3, <2>1, Zenon
  <2>3. left \in SUBSET Inis
    BY <2>1
  <2>. QED
    BY <1>3, <2>1, <2>2, <2>3
<1>. QED
  BY <1>1, <1>2, <1>3 DEF Switch!Mount, Switch!Return

LEMMA RestOfOverlay ==
  ASSUME NEW s \in Seq(Profiles), s # <<>>
  PROVE  Tail(s) \in Seq(Profiles)
OBVIOUS

LEMMA OverlayOnTop ==
  ASSUME NEW s \in Seq(Profiles), NEW p \in Profiles
  PROVE  <<p>> \o s \in Seq(Profiles)
<1>1. <<p>> \in Seq(Profiles)
  OBVIOUS
<1>. QED
  BY <1>1

LEMMA SwitchTypesKept ==
  ASSUME SwitchTypes, MountedInv, Switch!SwitchNext
  PROVE  SwitchTypes'
<1>1. CASE \E p \in Profiles : Switch!Activate(p)
  BY <1>1 DEF SwitchTypes, Switch!Activate, Switch!NoCall, Switch!mounts
<1>2. CASE Switch!Teardown
  <2>1. overlay' \in Seq(Profiles)
    <3>1. overlay' = overlay \/ (Switch!IsMounted /\ overlay' = Tail(overlay))
      BY <1>2, Zenon DEF Switch!Teardown
    <3>2. overlay \in Seq(Profiles)
      BY DEF SwitchTypes
    <3>3. CASE overlay' = overlay
      BY <3>2, <3>3
    <3>4. CASE Switch!IsMounted /\ overlay' = Tail(overlay)
      <4>1. overlay # <<>>
        BY <3>4 DEF Switch!IsMounted
      <4>2. Tail(overlay) \in Seq(Profiles)
        BY ONLY <3>2, <4>1, RestOfOverlay
      <4>. QED
        BY <3>4, <4>2
    <3>. QED
      BY <3>1, <3>3, <3>4
  <2>2. stranded' \in BOOLEAN
    BY <1>2 DEF Switch!Teardown, SwitchTypes
  <2>. QED
    BY <1>2, <2>1, <2>2
       DEF SwitchTypes, Switch!Teardown, Switch!NoCall, Switch!Return, Switch!Goto
<1>3. CASE Switch!SetActive
  BY <1>3 DEF SwitchTypes, Switch!SetActive, Switch!NoCall, Switch!Return, Switch!Goto,
     Switch!mounts
<1>4. CASE Switch!Mount
  <2>1. call.to \in Profiles /\ call.at = "mount"
    BY <1>4 DEF SwitchTypes, MountedInv, Switch!Mount
  <2>2. /\ active' = active /\ farms' = farms /\ gameIni' = gameIni /\ snap' = snap
        /\ escaped' = escaped /\ links' \in {links, links \cup {call.to}}
        /\ overlay' \in {overlay, <<call.to>> \o overlay}
        /\ handle' \in {handle, call.to} /\ stranded' \in {stranded, TRUE}
    BY <1>4 DEF Switch!Mount, Switch!Overlaid, SwitchTypes
  <2>3. \/ call' = Switch!NoCall
        \/ \E left \in SUBSET Inis : call' = [call EXCEPT !.at = "apply", !.left = left]
    BY <1>4, MountGoesOn
  <2>4. told' = told /\ mixed' \in {mixed, TRUE}
    BY <1>4 DEF Switch!Mount, Switch!Return
  <2>5. call' \in [at : {"idle", "teardown", "activate", "mount", "apply", "snapshot"},
                   to : Profiles \cup {None}, left : SUBSET Inis]
    <3>1. CASE call' = Switch!NoCall
      BY <3>1 DEF Switch!NoCall
    <3>2. CASE \E left \in SUBSET Inis : call' = [call EXCEPT !.at = "apply", !.left = left]
      BY <3>2 DEF SwitchTypes
    <3>. QED
      BY <2>3, <3>1, <3>2
  <2>6. overlay' \in Seq(Profiles)
    <3>1. overlay \in Seq(Profiles)
      BY DEF SwitchTypes
    <3>2. <<call.to>> \o overlay \in Seq(Profiles)
      BY <2>1, <3>1, OverlayOnTop
    <3>. QED
      BY <2>2, <3>1, <3>2
  <2>. QED
    BY <2>1, <2>2, <2>4, <2>5, <2>6 DEF SwitchTypes
<1>5. CASE Switch!ApplyFile
  <2>1. call.to \in Profiles
    BY <1>5 DEF SwitchTypes, MountedInv, Switch!ApplyFile
  <2>2. gameIni' \in [Inis -> IniFiles]
    BY <1>5, <2>1 DEF SwitchTypes, Switch!ApplyFile
  <2>. QED
    BY <1>5, <2>2 DEF SwitchTypes, Switch!ApplyFile, Switch!mounts
<1>6. CASE Switch!ApplyFails
  BY <1>6 DEF SwitchTypes, Switch!ApplyFails, Switch!mounts, IniFiles
<1>7. CASE Switch!Publish
  BY <1>7 DEF SwitchTypes, Switch!Publish, Switch!NoCall, Switch!mounts
<1>8. CASE Switch!BeginSnapshot
  BY <1>8 DEF SwitchTypes, Switch!BeginSnapshot, Switch!mounts
<1>9. CASE Switch!KeepFile
  <2>1. call.to \in Profiles
    BY <1>9 DEF SwitchTypes, MountedInv, Switch!KeepFile
  <2>2. snap' \in [Profiles -> [Inis -> IniFiles]]
    BY <1>9, <2>1 DEF SwitchTypes, Switch!KeepFile
  <2>. QED
    BY <1>9, <2>2 DEF SwitchTypes, Switch!KeepFile, Switch!mounts
<1>10. CASE Switch!KeepFails
  <2>1. call.to \in Profiles /\ snap \in [Profiles -> [Inis -> IniFiles]]
    BY <1>10 DEF SwitchTypes, MountedInv, Switch!KeepFails
  <2>2. PICK f \in Inis : snap' \in {snap, [snap EXCEPT ![call.to][f] = Torn]}
    BY <1>10 DEF SwitchTypes, Switch!KeepFails
  <2>3. snap' \in [Profiles -> [Inis -> IniFiles]]
    BY <2>1, <2>2 DEF IniFiles
  <2>. QED
    BY <1>10, <2>3 DEF SwitchTypes, Switch!KeepFails, Switch!NoCall, Switch!mounts
<1>11. CASE Switch!SnapshotDone
  BY <1>11 DEF SwitchTypes, Switch!SnapshotDone, Switch!NoCall, Switch!mounts
<1>12. CASE Switch!Unmount
  <2>1. overlay \in Seq(Profiles) /\ links \subseteq Profiles
    BY DEF SwitchTypes
  <2>2. overlay' = overlay \/ (overlay # <<>> /\ overlay' = Tail(overlay))
    BY <1>12, Zenon DEF Switch!Unmount
  <2>3. links' = links \/ links' = links \ {handle}
    BY <1>12, Zenon DEF Switch!Unmount
  <2>4. overlay' \in Seq(Profiles) /\ links' \subseteq Profiles
    BY <2>1, <2>2, <2>3
  <2>5. /\ active' = active /\ farms' = farms /\ escaped' = escaped /\ handle' = None
        /\ gameIni' = gameIni /\ snap' = snap /\ call' = call /\ told' = None
        /\ mixed' = mixed /\ stranded' = stranded
    BY <1>12, Zenon DEF Switch!Unmount
  <2>. QED
    BY <2>4, <2>5 DEF SwitchTypes
<1>13. CASE Switch!GameWrites
  BY <1>13 DEF SwitchTypes, Switch!GameWrites, Switch!mounts, IniFiles
<1>. QED
  BY <1>1, <1>2, <1>3, <1>4, <1>5, <1>6, <1>7, <1>8, <1>9, <1>10, <1>11, <1>12, <1>13
     DEF Switch!SwitchNext

LEMMA MountedKept ==
  ASSUME None \notin Profiles, SwitchTypes, MountedInv, Switch!SwitchNext
  PROVE  MountedInv'
<1>1. CASE \E p \in Profiles : Switch!Activate(p)
  BY <1>1 DEF SwitchTypes, MountedInv, Switch!Activate, Switch!NoCall, Switch!mounts
<1>2. CASE Switch!Teardown
  <2>1. /\ UNCHANGED <<active, links>>
        /\ \/ call' = Switch!NoCall /\ UNCHANGED <<overlay, stranded>>
           \/ /\ call' = [call EXCEPT !.at = "activate"]
              /\ stranded' = (stranded \/ links # {} \/ overlay' # <<>>)
    BY <1>2 DEF Switch!Teardown, Switch!Return, Switch!Goto
  <2>2. CASE call' = Switch!NoCall /\ UNCHANGED <<overlay, stranded>>
    BY <2>1, <2>2 DEF MountedInv, Switch!NoCall
  <2>3. CASE /\ call' = [call EXCEPT !.at = "activate"]
             /\ stranded' = (stranded \/ links # {} \/ overlay' # <<>>)
    <3>1. call'.at = "activate" /\ call'.to = call.to /\ call.at = "teardown"
      BY <1>2, <2>3 DEF SwitchTypes, Switch!Teardown
    <3>. QED
      BY <2>1, <2>3, <3>1 DEF SwitchTypes, MountedInv
  <2>. QED
    BY <2>1, <2>2, <2>3
<1>3. CASE Switch!SetActive
  BY <1>3 DEF SwitchTypes, MountedInv, Switch!SetActive, Switch!NoCall, Switch!Return,
     Switch!Goto, Switch!mounts
<1>4. CASE Switch!Mount
  <2>1. call.at = "mount" /\ active' = active
    BY <1>4 DEF Switch!Mount
  <2>2. CASE call' = Switch!NoCall
    <3>1. call'.at = "idle"
      BY <2>2 DEF Switch!NoCall
    <3>2. \/ UNCHANGED <<overlay, links, stranded>>
          \/ stranded'
      BY <1>4, <2>1, <2>2
         DEF Switch!Mount, Switch!Return, Switch!Goto, Switch!NoCall, SwitchTypes
    <3>. QED
      BY <2>1, <3>1, <3>2 DEF SwitchTypes, MountedInv
  <2>3. CASE call' # Switch!NoCall
    <3>1. PICK left \in SUBSET Inis :
            /\ call' = [call EXCEPT !.at = "apply", !.left = left]
            /\ Switch!Overlaid
      BY <1>4, <2>3, MountGoesOn
    <3>2. call'.at = "apply" /\ call'.to = call.to
      BY <3>1 DEF SwitchTypes
    <3>3. call.to \in Profiles /\ active = call.to
      BY <2>1 DEF SwitchTypes, MountedInv
    <3>4. /\ stranded' = stranded
          /\ links' = IF farms THEN links \cup {call.to} ELSE links
          /\ overlay' = IF farms THEN overlay ELSE <<call.to>> \o overlay
      BY <3>1 DEF Switch!Overlaid
    <3>5. overlay = <<>> => <<call.to>> \o overlay = <<call.to>>
      BY <3>3
    <3>6. call.to \in Switch!Shown'
      <4>1. <<call.to>> \o overlay # <<>> /\ Head(<<call.to>> \o overlay) = call.to
        BY <3>3 DEF SwitchTypes
      <4>. QED
        BY <3>4, <4>1 DEF Switch!Shown
    <3>. QED
      BY <2>1, <3>2, <3>3, <3>4, <3>5, <3>6 DEF MountedInv
  <2>. QED
    BY <2>2, <2>3
<1>5. CASE Switch!ApplyFile \/ Switch!ApplyFails \/ Switch!Publish
  BY <1>5 DEF SwitchTypes, MountedInv, Switch!ApplyFile, Switch!ApplyFails,
     Switch!Publish, Switch!NoCall, Switch!mounts, Switch!Shown
<1>6. CASE \/ Switch!BeginSnapshot \/ Switch!KeepFile \/ Switch!KeepFails
           \/ Switch!SnapshotDone \/ Switch!GameWrites
  <2>1. UNCHANGED <<active, overlay, links, stranded>>
    BY <1>6, Zenon DEF Switch!BeginSnapshot, Switch!KeepFile, Switch!KeepFails,
       Switch!SnapshotDone, Switch!GameWrites, Switch!mounts
  <2>2. \/ call' = call
        \/ call'.at = "idle"
        \/ call'.at = "snapshot" /\ call'.to \in {active, call.to} /\ call'.to # None
    BY <1>6 DEF SwitchTypes, MountedInv, Switch!BeginSnapshot, Switch!KeepFile,
       Switch!KeepFails, Switch!SnapshotDone, Switch!GameWrites, Switch!NoCall
  <2>. QED
    BY <2>1, <2>2 DEF MountedInv, Switch!Shown
<1>7. CASE Switch!Unmount
  <2>1. overlay' = overlay \/ overlay' = Tail(overlay)
    BY <1>7, Zenon DEF Switch!Unmount
  <2>2. links' = links \/ links' = links \ {handle}
    BY <1>7, Zenon DEF Switch!Unmount
  <2>3. call' = call /\ call.at = "idle" /\ active' = active /\ stranded' = stranded
    BY <1>7, Zenon DEF Switch!Unmount
  <2>4. overlay \in {<<>>, <<active>>} => overlay' \in {<<>>, <<active>>}
    <3>1. CASE overlay = <<>>
      BY <1>7, <3>1, Zenon DEF Switch!Unmount
    <3>2. CASE overlay = <<active>>
      BY <2>1, <3>2
    <3>. QED
      BY <3>1, <3>2
  <2>. QED
    BY <2>2, <2>3, <2>4 DEF MountedInv
<1>. QED
  BY <1>1, <1>2, <1>3, <1>4, <1>5, <1>6, <1>7 DEF Switch!SwitchNext

LEMMA AppliedKept ==
  ASSUME None \notin Profiles, SwitchInv, Switch!SwitchNext
  PROVE  AppliedInv' /\ Switch!ChangedMeansAll'
<1>1. CASE \E p \in Profiles : Switch!Activate(p)
  BY <1>1 DEF SwitchInv, SwitchTypes, AppliedInv, Switch!ChangedMeansAll, Switch!Activate,
     Switch!NoCall
<1>2. CASE \/ Switch!Teardown \/ Switch!SetActive \/ Switch!BeginSnapshot
           \/ Switch!KeepFile \/ Switch!KeepFails \/ Switch!SnapshotDone
  <2>1. told' = None
    BY <1>2 DEF SwitchInv, SwitchTypes, AppliedInv, Switch!Teardown, Switch!SetActive,
       Switch!BeginSnapshot, Switch!KeepFile, Switch!KeepFails, Switch!SnapshotDone,
       Switch!Return
  <2>2. call'.at # "apply"
    BY <1>2 DEF SwitchInv, SwitchTypes, Switch!Teardown, Switch!SetActive,
       Switch!BeginSnapshot, Switch!KeepFile, Switch!KeepFails, Switch!SnapshotDone,
       Switch!Return, Switch!Goto, Switch!NoCall
  <2>. QED
    BY <2>1, <2>2 DEF AppliedInv, Switch!ChangedMeansAll
<1>3. CASE Switch!Mount
  <2>1. told' = None
    BY <1>3 DEF SwitchInv, SwitchTypes, AppliedInv, Switch!Mount, Switch!Return
  <2>2. call'.at = "apply" =>
          /\ call'.to = call.to /\ snap' = snap
          /\ mixed' \/ call'.left = {f \in Inis : snap[call.to][f] # None}
    <3>1. snap' = snap
      BY <1>3 DEF Switch!Mount
    <3>2. CASE call' = Switch!NoCall
      BY <3>2 DEF Switch!NoCall
    <3>3. CASE call' # Switch!NoCall
      <4>1. PICK left \in SUBSET Inis :
              /\ mixed' \/ left = {f \in Inis : snap[call.to][f] # None}
              /\ call' = [call EXCEPT !.at = "apply", !.left = left]
        BY <1>3, <3>3, MountGoesOn DEF SwitchInv
      <4>2. call'.to = call.to /\ call'.left = left
        BY <4>1 DEF SwitchInv, SwitchTypes
      <4>. QED
        BY <3>1, <4>1, <4>2
    <3>. QED
      BY <3>2, <3>3
  <2>. QED
    BY <2>1, <2>2 DEF AppliedInv, Switch!ChangedMeansAll
<1>4. CASE Switch!ApplyFile
  <2>1. PICK g \in call.left :
          /\ gameIni' = [gameIni EXCEPT ![g] = snap[call.to][g]]
          /\ call' = [call EXCEPT !.left = @ \ {g}]
    BY <1>4 DEF Switch!ApplyFile
  <2>2. /\ told' = None /\ snap' = snap /\ mixed' = mixed /\ call.at = "apply"
        /\ call'.to = call.to /\ call'.left = call.left \ {g} /\ call'.at = "apply"
        /\ g \in Inis
    BY <1>4, <2>1 DEF SwitchInv, SwitchTypes, AppliedInv, Switch!ApplyFile
  <2>3. \A f \in Inis : gameIni'[f] = IF f = g THEN snap[call.to][g] ELSE gameIni[f]
    BY <2>1 DEF SwitchInv, SwitchTypes
  <2>. QED
    BY <2>2, <2>3 DEF SwitchInv, AppliedInv, Switch!ChangedMeansAll
<1>5. CASE Switch!ApplyFails
  BY <1>5 DEF SwitchInv, SwitchTypes, AppliedInv, Switch!ChangedMeansAll, Switch!ApplyFails
<1>6. CASE Switch!Publish
  <2>1. /\ told' = call.to /\ call'.at = "idle" /\ call.at = "apply" /\ call.left = {}
        /\ UNCHANGED <<active, overlay, links, gameIni, snap, mixed>>
    BY <1>6 DEF Switch!Publish, Switch!NoCall, Switch!mounts
  <2>2. active = call.to /\ call.to # None /\ call.to \in Switch!Shown
    BY <2>1 DEF SwitchInv, MountedInv
  <2>. QED
    BY <2>1, <2>2 DEF SwitchInv, AppliedInv, Switch!ChangedMeansAll, Switch!Shown
<1>7. CASE Switch!Unmount
  BY <1>7 DEF SwitchInv, SwitchTypes, AppliedInv, Switch!ChangedMeansAll, Switch!Unmount
<1>8. CASE Switch!GameWrites
  BY <1>8 DEF SwitchInv, SwitchTypes, AppliedInv, Switch!ChangedMeansAll, Switch!GameWrites,
     Switch!Shown, Switch!mounts
<1>. QED
  BY <1>1, <1>2, <1>3, <1>4, <1>5, <1>6, <1>7, <1>8 DEF Switch!SwitchNext

\* activate_profile, for any profiles and files and however it is cut short: unless
\* teardown_stale has left links or an overlay it could not find, the game directory
\* shows the active profile's mods or none.  Whoever is told of a switch finds all of
\* it done, in every case.
THEOREM SwitchIsTrue == SwitchSpec => []Switch!SwitchTrue
<1>. USE NoneIsNone
<1>1. Switch!SwitchInit => SwitchInv
  <2>1. SUFFICES ASSUME Switch!SwitchInit PROVE SwitchInv
    OBVIOUS
  <2>2. SwitchTypes
    <3>1. /\ active = None /\ overlay = <<>> /\ links = {} /\ handle = None
          /\ told = None /\ mixed = FALSE /\ stranded = FALSE
          /\ farms \in BOOLEAN /\ escaped \in BOOLEAN
          /\ call = [at |-> "idle", to |-> None, left |-> {}]
      BY <2>1, Zenon DEF Switch!SwitchInit, Switch!NoCall
    <3>2. gameIni \in [Inis -> IniFiles] /\ snap \in [Profiles -> [Inis -> IniFiles]]
      BY <2>1 DEF Switch!SwitchInit, IniFiles
    <3>3. overlay \in Seq(Profiles)
      BY <3>1
    <3>4. call \in [at : {"idle", "teardown", "activate", "mount", "apply", "snapshot"},
                    to : Profiles \cup {None}, left : SUBSET Inis]
      BY <3>1
    <3>. QED
      BY <3>1, <3>2, <3>3, <3>4, Zenon DEF SwitchTypes
  <2>3. MountedInv
    BY <2>1 DEF Switch!SwitchInit, MountedInv, Switch!NoCall
  <2>4. AppliedInv /\ Switch!ChangedMeansAll
    BY <2>1 DEF Switch!SwitchInit, AppliedInv, Switch!NoCall, Switch!ChangedMeansAll
  <2>. QED
    BY <2>2, <2>3, <2>4 DEF SwitchInv
<1>2. SwitchInv /\ [Switch!SwitchNext]_(Switch!switchVars) => SwitchInv'
  <2>1. SUFFICES ASSUME SwitchInv, [Switch!SwitchNext]_(Switch!switchVars)
                 PROVE  SwitchInv'
    OBVIOUS
  <2>2. CASE Switch!SwitchNext
    BY <2>1, <2>2, SwitchTypesKept, MountedKept, AppliedKept DEF SwitchInv
  <2>3. CASE UNCHANGED Switch!switchVars
    BY <2>1, <2>3 DEF Switch!switchVars, SwitchInv, SwitchTypes, MountedInv, AppliedInv,
       Switch!ChangedMeansAll, Switch!Shown
  <2>. QED
    BY <2>1, <2>2, <2>3
<1>3. SwitchInv => Switch!SwitchTrue
  BY DEF SwitchInv, MountedInv, Switch!SwitchTrue, Switch!ShownIsActive, Switch!Shown
<1>. QED
  BY <1>1, <1>2, <1>3, PTL DEF SwitchSpec

(***************************************************************************)
(* Diagnostics: what the scans report while the game goes on writing.      *)
(***************************************************************************)

DiagSpec == Diag!DiagInit /\ [][Diag!DiagNext]_(Diag!diagVars)

\* CATEGORIES is a list.
CategoriesListed == \E n \in Nat : DOMAIN Categories = 1 .. n

LEMMA CategoriesAreListed == CategoriesListed
<1>1. Len(Categories) \in Nat /\ DOMAIN Categories = 1 .. Len(Categories)
  BY ListsAndNumbers
<1>. QED
  BY <1>1 DEF CategoriesListed

CategoryNames == {Categories[i] : i \in DOMAIN Categories} \cup {Uncategorized}
ScanPlaces == {"idle", "list", "saves", "exists", "overwrite", "walk", "shown"}

DiagTypes ==
  /\ saves \in [Saves -> SUBSET {"save", "cosave"}] /\ loose \subseteq Loose
  /\ lying \subseteq loose /\ diag.at \in ScanPlaces
  /\ lacking \subseteq Saves /\ paired \subseteq Saves /\ absent \subseteq Saves
  /\ \A s \in lacking : Diag!Save(s) /\ ~ Diag!Cosave(s)
  /\ \A s \in paired : Diag!Cosave(s)
  /\ \A s \in absent : ~ Diag!Save(s)

\* What is named was there and lacked its cosave at some moment, and what lacks it all
\* the time is named, or the one asked about, or on the list still.
MissingInv ==
  /\ diag.at # "idle" =>
       /\ diag.missing \cap paired = {} /\ diag.missing \cap absent = {}
       /\ diag.of \cap absent = {}
  /\ diag.at = "list" => ~ diag.listed /\ diag.of = {}
  /\ diag.at \in {"saves", "exists"} =>
       (diag.listed => lacking \subseteq (diag.left \cup diag.of \cup diag.missing))
  /\ diag.at = "saves" => diag.of = {}
  /\ diag.at \in {"overwrite", "walk", "shown"} =>
       (diag.listed => lacking \subseteq diag.missing)
  /\ diag.at = "shown" => Diag!Warned = diag.missing

\* What is counted is counted once, and what is not yet counted is on the list of the
\* walk.
FoundInv ==
  /\ diag.at \in {"list", "saves", "exists", "overwrite"} => diag.found = Diag!NoFiles
  /\ diag.at \in {"walk", "shown"} =>
       /\ diag.found \in [CategoryNames -> SUBSET Loose] /\ diag.walk \subseteq Loose
       /\ \A f \in diag.walk, c \in CategoryNames : f \notin diag.found[c]
       /\ \A f \in lying \ diag.walk : \E k \in CategoryNames :
            \A c \in CategoryNames : f \in diag.found[c] <=> c = k
  /\ diag.at = "shown" =>
       /\ diag.walk = {}
       /\ diag.found # Diag!NoFiles => diag.found \in Diag!Listed

DiagInv == DiagTypes /\ MissingInv /\ FoundInv

\* The record of the scan is one: EXCEPT changes the fields it names.
DiagRecord ==
  DOMAIN diag = {"at", "left", "of", "listed", "missing", "walk", "found"}

LEMMA NoFilesIsNone ==
  /\ DOMAIN Diag!NoFiles = CategoryNames
  /\ \A c \in CategoryNames : Diag!NoFiles[c] = {}
  /\ Diag!NoFiles \in [CategoryNames -> SUBSET Loose]
BY DEF Diag!NoFiles, CategoryNames, Diag!Range

\* A set of positions has a first one.
LEMMA FirstPosition ==
  ASSUME NEW K, K \subseteq Nat, K # {}
  PROVE  \E k \in K : \A j \in K : k <= j
<1>1. PICK k \in K : \A j \in K : ~(<<j, k>> \in OpToRel(<, Nat))
  BY NatLessThanWellFounded, WFMin
<1>2. \A j \in K : k <= j
  <2>1. TAKE j \in K
  <2>2. ~(j < k)
    BY <1>1, <2>1 DEF OpToRel
  <2>. QED
    BY <2>2
<1>. QED
  BY <1>2

\* classify gives every file one category.
LEMMA OneClass ==
  ASSUME CategoriesListed, NEW f
  PROVE  \E k \in CategoryNames : Diag!Classes(f) = {k}
<1>1. PICK K : K = {i \in DOMAIN Categories : Categories[i] \in Matching[f]}
  OBVIOUS
<1>2. K \subseteq Nat /\ K \subseteq DOMAIN Categories
  BY <1>1 DEF CategoriesListed
<1>3. CASE K = {}
  BY <1>1, <1>3 DEF Diag!Classes, CategoryNames
<1>4. CASE K # {}
  <2>1. PICK k : k = CHOOSE i \in K : \A j \in K : i <= j
    OBVIOUS
  <2>2. k \in K
    BY <1>2, <1>4, <2>1, FirstPosition
  <2>3. Diag!Classes(f) = {Categories[k]}
    BY <1>1, <1>4, <2>1 DEF Diag!Classes
  <2>. QED
    BY <1>2, <2>2, <2>3 DEF CategoryNames
<1>. QED
  BY <1>3, <1>4

LEMMA WalkKeeps ==
  ASSUME CategoriesListed, DiagInv, DiagRecord, Diag!WalkFile
  PROVE  DiagInv' /\ DiagRecord'
<1>1. PICK f \in diag.walk :
        diag' = [diag EXCEPT !.walk = @ \ {f},
                  !.found = [c \in DOMAIN @ |-> IF c \in Diag!Classes(f) THEN @[c] \cup {f}
                                                                          ELSE @[c]]]
  BY DEF Diag!WalkFile
<1>2. /\ UNCHANGED <<plugins, saves, loose, acts, shown, lacking, paired, absent, lying, scans>>
      /\ diag.at = "walk"
  BY DEF Diag!WalkFile, Diag!world, Diag!since
<1>3. PICK k \in CategoryNames : Diag!Classes(f) = {k}
  BY OneClass
<1>4. /\ diag'.at = "walk" /\ diag'.walk = diag.walk \ {f} /\ diag'.missing = diag.missing
      /\ diag'.of = diag.of /\ diag'.listed = diag.listed
      /\ DiagRecord'
      /\ diag'.found = [c \in CategoryNames |-> IF c = k THEN diag.found[c] \cup {f}
                                                        ELSE diag.found[c]]
  BY <1>1, <1>2, <1>3 DEF DiagInv, FoundInv, DiagRecord
<1>5. /\ diag.found \in [CategoryNames -> SUBSET Loose] /\ diag.walk \subseteq Loose
      /\ \A g \in diag.walk, c \in CategoryNames : g \notin diag.found[c]
      /\ \A g \in lying \ diag.walk : \E h \in CategoryNames :
           \A c \in CategoryNames : g \in diag.found[c] <=> c = h
  BY <1>2 DEF DiagInv, FoundInv
<1>6. \A c \in CategoryNames :
        diag'.found[c] = IF c = k THEN diag.found[c] \cup {f} ELSE diag.found[c]
  BY <1>4
<1>7. diag'.found \in [CategoryNames -> SUBSET Loose] /\ diag'.walk \subseteq Loose
  BY <1>4, <1>5
<1>8. \A g \in diag'.walk, c \in CategoryNames : g \notin diag'.found[c]
  BY <1>4, <1>5, <1>6
<1>9. \A g \in lying \ diag'.walk : \E h \in CategoryNames :
        \A c \in CategoryNames : g \in diag'.found[c] <=> c = h
  <2>1. TAKE g \in lying \ diag'.walk
  <2>2. CASE g = f
    BY <1>3, <1>5, <1>6, <2>2
  <2>3. CASE g # f
    <3>1. PICK h \in CategoryNames : \A c \in CategoryNames : g \in diag.found[c] <=> c = h
      BY <1>4, <1>5, <2>3
    <3>2. \A c \in CategoryNames : g \in diag'.found[c] <=> c = h
      BY <1>6, <2>3, <3>1
    <3>. QED
      BY <3>2
  <2>. QED
    BY <2>2, <2>3
<1>10. DiagTypes'
  BY <1>2, <1>4 DEF DiagInv, DiagTypes, ScanPlaces, Diag!Save, Diag!Cosave
<1>11. FoundInv'
  BY <1>2, <1>4, <1>5, <1>7, <1>8, <1>9 DEF FoundInv
<1>12. MissingInv'
  BY <1>2, <1>4 DEF DiagInv, MissingInv
<1>. QED
  BY <1>4, <1>10, <1>11, <1>12 DEF DiagInv

\* The entries are a warning of what is missing and a note of what was found.
LEMMA ShowKeeps ==
  ASSUME CategoriesListed, DiagInv, DiagRecord, Diag!ShowEntries
  PROVE  DiagInv' /\ DiagRecord'
<1>1. /\ UNCHANGED <<plugins, saves, loose, acts, lacking, paired, absent, lying, scans>>
      /\ diag.at = "walk" /\ diag.walk = {} /\ diag'.at = "shown"
      /\ diag'.walk = diag.walk /\ diag'.missing = diag.missing /\ diag'.found = diag.found
      /\ diag'.of = diag.of /\ diag'.listed = diag.listed
      /\ DiagRecord'
  BY DEF Diag!ShowEntries, Diag!world, Diag!since, DiagRecord
<1>2. PICK w, n : w = Diag!Warning /\ n = Diag!Note
  OBVIOUS
<1>3. /\ w.severity = "warning" /\ w.of = diag.missing
      /\ n.severity = "info" /\ n.of = diag.found
  BY <1>2 DEF Diag!Warning, Diag!Note
<1>4. shown' = (IF diag.missing # {} THEN << w >> ELSE << >>)
               \o (IF diag.found # Diag!NoFiles THEN << n >> ELSE << >>)
  BY <1>2 DEF Diag!ShowEntries
<1>5. \/ DOMAIN shown' = 1 .. 2 /\ shown'[1] = w /\ shown'[2] = n
      \/ shown' = << w >> /\ diag.found = Diag!NoFiles
      \/ shown' = << n >> /\ diag.missing = {}
      \/ shown' = << >> /\ diag.found = Diag!NoFiles /\ diag.missing = {}
  <2>1. DOMAIN (<< w >> \o << n >>) = 1 .. 2 /\ (<< w >> \o << n >>)[1] = w
        /\ (<< w >> \o << n >>)[2] = n
    OBVIOUS
  <2>2. << w >> \o << >> = << w >> /\ << >> \o << n >> = << n >> /\ << >> \o << >> = << >>
    OBVIOUS
  <2>3. \/ shown' = << w >> \o << n >>
        \/ shown' = << w >> \o << >> /\ diag.found = Diag!NoFiles
        \/ shown' = << >> \o << n >> /\ diag.missing = {}
        \/ shown' = << >> \o << >> /\ diag.found = Diag!NoFiles /\ diag.missing = {}
    BY <1>4, Zenon
  <2>4. CASE shown' = << w >> \o << n >>
    BY <2>1, <2>4, Zenon
  <2>. QED
    BY <2>2, <2>3, <2>4, Zenon
<1>6. /\ \A i \in DOMAIN shown' : shown'[i] \in {w, n}
      /\ diag.found # Diag!NoFiles => \E i \in DOMAIN shown' : shown'[i] = n
      /\ diag.missing # {} => \E i \in DOMAIN shown' : shown'[i] = w
  <2>1. CASE DOMAIN shown' = 1 .. 2 /\ shown'[1] = w /\ shown'[2] = n
    BY <2>1
  <2>2. CASE shown' = << n >> /\ diag.missing = {}
    <3>1. DOMAIN shown' = {1} /\ shown'[1] = n
      BY <2>2
    <3>. QED
      BY <2>2, <3>1
  <2>3. CASE shown' = << w >> /\ diag.found = Diag!NoFiles
    <3>1. DOMAIN shown' = {1} /\ shown'[1] = w
      BY <2>3
    <3>. QED
      BY <2>3, <3>1
  <2>4. CASE shown' = << >> /\ diag.found = Diag!NoFiles /\ diag.missing = {}
    BY <2>4
  <2>. QED
    BY <1>5, <2>1, <2>2, <2>3, <2>4
<1>7. Diag!Warned' = diag'.missing
  BY <1>1, <1>3, <1>6 DEF Diag!Warned
<1>8. diag'.found # Diag!NoFiles => diag'.found \in Diag!Listed'
  BY <1>1, <1>3, <1>6 DEF Diag!Listed
<1>9. DiagTypes'
  BY <1>1 DEF DiagInv, DiagTypes, ScanPlaces, Diag!Save, Diag!Cosave
<1>10. FoundInv'
  BY <1>1, <1>8 DEF DiagInv, FoundInv, Diag!NoFiles
<1>11. MissingInv'
  BY <1>1, <1>7 DEF DiagInv, MissingInv
<1>. QED
  BY <1>1, <1>9, <1>10, <1>11 DEF DiagInv

\* The one asked about was a file at that moment; one that has gone lacks nothing.
LEMMA IsFileKeeps ==
  ASSUME DiagInv, DiagRecord, Diag!IsFile
  PROVE  DiagInv' /\ DiagRecord'
<1>1. PICK s \in diag.left :
        diag' = [diag EXCEPT !.at = IF Diag!Save(s) THEN "exists" ELSE @,
                             !.of = IF Diag!Save(s) THEN {s} ELSE @, !.left = @ \ {s}]
  BY DEF Diag!IsFile
<1>2. /\ UNCHANGED <<plugins, saves, loose, acts, shown, lacking, paired, absent, lying, scans>>
      /\ diag.at = "saves"
  BY DEF Diag!IsFile, Diag!world, Diag!since
<1>3. /\ diag'.at = (IF Diag!Save(s) THEN "exists" ELSE "saves")
      /\ diag'.of = (IF Diag!Save(s) THEN {s} ELSE {}) /\ diag'.left = diag.left \ {s}
      /\ diag'.listed = diag.listed /\ diag'.missing = diag.missing
      /\ diag'.found = diag.found /\ DiagRecord'
  BY <1>1, <1>2 DEF DiagRecord, DiagInv, MissingInv
<1>4. DiagTypes'
  BY <1>2, <1>3 DEF DiagInv, DiagTypes, ScanPlaces, Diag!Save, Diag!Cosave
<1>5. Diag!Save(s) => s \notin absent
  BY DEF DiagInv, DiagTypes
<1>6. ~ Diag!Save(s) => s \notin lacking
  BY DEF DiagInv, DiagTypes
<1>7. MissingInv'
  BY <1>2, <1>3, <1>5, <1>6 DEF DiagInv, MissingInv
<1>8. FoundInv'
  BY <1>2, <1>3 DEF DiagInv, FoundInv, Diag!NoFiles
<1>. QED
  BY <1>3, <1>4, <1>7, <1>8 DEF DiagInv

LEMMA CosaveExistsKeeps ==
  ASSUME DiagInv, DiagRecord, Diag!CosaveExists
  PROVE  DiagInv' /\ DiagRecord'
<1>1. /\ UNCHANGED <<plugins, saves, loose, acts, shown, lacking, paired, absent, lying, scans>>
      /\ diag.at = "exists" /\ diag'.at = "saves" /\ diag'.of = {} /\ diag'.left = diag.left
      /\ diag'.missing = diag.missing \cup {s \in diag.of : ~ Diag!Cosave(s)}
      /\ diag'.listed = diag.listed /\ diag'.found = diag.found /\ DiagRecord'
  BY DEF Diag!CosaveExists, Diag!world, Diag!since, DiagRecord
<1>2. DiagTypes'
  BY <1>1 DEF DiagInv, DiagTypes, ScanPlaces, Diag!Save, Diag!Cosave
<1>3. /\ \A s \in paired : Diag!Cosave(s)
      /\ \A s \in lacking : ~ Diag!Cosave(s)
  BY DEF DiagInv, DiagTypes
<1>4. MissingInv'
  BY <1>1, <1>3 DEF DiagInv, MissingInv
<1>5. FoundInv'
  BY <1>1 DEF DiagInv, FoundInv, Diag!NoFiles
<1>. QED
  BY <1>1, <1>2, <1>4, <1>5 DEF DiagInv

LEMMA ScanGoesOnKeeps ==
  ASSUME DiagInv, DiagRecord,
         Diag!BeginScan \/ Diag!ListSaves \/ Diag!SavesDone \/ Diag!ListLoose \/ Diag!EndOfScan
  PROVE  DiagInv' /\ DiagRecord'
<1>1. CASE Diag!BeginScan
  <2>1. /\ diag'.at \in {"list", "overwrite"} /\ diag'.missing = {} /\ DiagRecord'
        /\ diag'.of = {} /\ diag'.listed = FALSE
        /\ diag'.found = Diag!NoFiles /\ UNCHANGED <<saves, loose, plugins, acts>>
        /\ lacking' = {s \in Saves : Diag!Save(s) /\ ~ Diag!Cosave(s)}
        /\ paired' = {s \in Saves : Diag!Cosave(s)}
        /\ absent' = {s \in Saves : ~ Diag!Save(s)} /\ lying' = loose
    BY <1>1 DEF Diag!BeginScan, Diag!Quiet, Diag!world, DiagRecord
  <2>2. DiagTypes'
    BY <2>1 DEF DiagInv, DiagTypes, ScanPlaces, Diag!Save, Diag!Cosave
  <2>3. MissingInv' /\ FoundInv'
    BY <2>1 DEF MissingInv, FoundInv, Diag!NoFiles
  <2>. QED
    BY <2>1, <2>2, <2>3 DEF DiagInv
<1>2. CASE Diag!ListSaves
  <2>1. PICK listed \in BOOLEAN :
          diag' = [diag EXCEPT !.at = "saves", !.listed = listed,
                     !.left = IF listed THEN {s \in Saves : Diag!Save(s)} ELSE {}]
    BY <1>2 DEF Diag!ListSaves
  <2>2. /\ diag'.at = "saves" /\ diag.at = "list" /\ diag'.missing = diag.missing
        /\ diag'.of = diag.of /\ diag'.listed = listed
        /\ diag'.left = (IF listed THEN {s \in Saves : Diag!Save(s)} ELSE {})
        /\ diag'.found = diag.found /\ DiagRecord'
        /\ UNCHANGED <<saves, loose, plugins, acts, lacking, paired, absent, lying>>
    BY <1>2, <2>1 DEF Diag!ListSaves, Diag!world, Diag!since, DiagRecord
  <2>3. DiagTypes'
    BY <2>2 DEF DiagInv, DiagTypes, ScanPlaces, Diag!Save, Diag!Cosave
  <2>4. lacking \subseteq {s \in Saves : Diag!Save(s)}
    BY DEF DiagInv, DiagTypes
  <2>5. MissingInv'
    BY <2>2, <2>4 DEF DiagInv, MissingInv
  <2>6. FoundInv'
    BY <2>2 DEF DiagInv, FoundInv, Diag!NoFiles
  <2>. QED
    BY <2>2, <2>3, <2>5, <2>6 DEF DiagInv
<1>3. CASE Diag!SavesDone
  <2>1. /\ diag'.at = "overwrite" /\ diag.at = "saves" /\ diag'.missing = diag.missing
        /\ diag.left = {} /\ diag'.of = diag.of /\ diag'.listed = diag.listed
        /\ diag'.found = diag.found /\ DiagRecord'
        /\ UNCHANGED <<saves, loose, plugins, acts, lacking, paired, absent, lying>>
    BY <1>3 DEF Diag!SavesDone, Diag!world, Diag!since, DiagRecord
  <2>2. DiagTypes'
    BY <2>1 DEF DiagInv, DiagTypes, ScanPlaces, Diag!Save, Diag!Cosave
  <2>3. MissingInv' /\ FoundInv'
    BY <2>1 DEF DiagInv, MissingInv, FoundInv, Diag!NoFiles
  <2>. QED
    BY <2>1, <2>2, <2>3 DEF DiagInv
<1>4. CASE Diag!ListLoose
  <2>1. /\ diag'.at = "walk" /\ diag.at = "overwrite" /\ diag'.missing = diag.missing
        /\ diag'.of = diag.of /\ diag'.listed = diag.listed
        /\ diag'.found = diag.found /\ diag'.walk = loose /\ DiagRecord'
        /\ UNCHANGED <<saves, loose, plugins, acts, lacking, paired, absent, lying>>
    BY <1>4 DEF Diag!ListLoose, Diag!world, Diag!since, DiagRecord
  <2>2. DiagTypes'
    BY <2>1 DEF DiagInv, DiagTypes, ScanPlaces, Diag!Save, Diag!Cosave
  <2>3. MissingInv'
    BY <2>1 DEF DiagInv, MissingInv
  <2>4. FoundInv'
    BY <2>1, NoFilesIsNone DEF DiagInv, DiagTypes, FoundInv
  <2>. QED
    BY <2>1, <2>2, <2>3, <2>4 DEF DiagInv
<1>5. CASE Diag!EndOfScan
  <2>1. /\ diag'.at = "idle" /\ DiagRecord'
        /\ UNCHANGED <<saves, loose, plugins, acts, lacking, paired, absent, lying>>
    BY <1>5 DEF Diag!EndOfScan, Diag!world, Diag!since, Diag!Quiet, DiagRecord
  <2>. QED
    BY <2>1 DEF DiagInv, DiagTypes, MissingInv, FoundInv, ScanPlaces, Diag!Save, Diag!Cosave
<1>. QED
  BY <1>1, <1>2, <1>3, <1>4, <1>5

\* The game goes on: what it changes is in the histories no longer.
LEMMA GameActsKeeps ==
  ASSUME DiagInv, DiagRecord, Diag!GameActs
  PROVE  DiagInv' /\ DiagRecord'
<1>1. /\ lacking' = {s \in lacking : saves'[s] = {"save"}}
      /\ paired' = {s \in paired : "cosave" \in saves'[s]}
      /\ absent' = {s \in absent : "save" \notin saves'[s]}
      /\ lying' = lying \cap loose'
      /\ diag' = diag /\ shown' = shown
  BY DEF Diag!GameActs
<1>2. saves' \in [Saves -> SUBSET {"save", "cosave"}] /\ loose' \subseteq Loose
  BY DEF Diag!GameActs, DiagInv, DiagTypes
<1>3. DiagTypes'
  BY <1>1, <1>2 DEF DiagInv, DiagTypes, Diag!Save, Diag!Cosave
<1>4. /\ lacking' \subseteq lacking /\ paired' \subseteq paired
      /\ absent' \subseteq absent /\ lying' \subseteq lying
  BY <1>1
<1>5. Diag!Warned' = Diag!Warned /\ Diag!Listed' = Diag!Listed
  BY <1>1 DEF Diag!Warned, Diag!Listed
<1>6. MissingInv'
  BY <1>1, <1>4, <1>5 DEF DiagInv, MissingInv
<1>7. FoundInv'
  BY <1>1, <1>4, <1>5 DEF DiagInv, FoundInv, Diag!NoFiles
<1>. QED
  BY <1>1, <1>3, <1>6, <1>7 DEF DiagInv, DiagRecord

\* load_diagnostics, for any saves, files and categories, and whatever the game does
\* meanwhile: no save whose cosave was there all the time, or which never was there, is
\* named, every one that lacked it all the time is, and every file that lay there all
\* the time is counted under one category.
THEOREM ScansAreTrue == DiagSpec => []Diag!ScansTrue
<1>. USE CategoriesAreListed
<1>1. Diag!DiagInit => DiagInv /\ DiagRecord
  BY DEF Diag!DiagInit, Diag!Quiet, DiagInv, DiagTypes, MissingInv, FoundInv, ScanPlaces,
     DiagRecord
<1>2. DiagInv /\ DiagRecord /\ [Diag!DiagNext]_(Diag!diagVars) => DiagInv' /\ DiagRecord'
  <2>1. SUFFICES ASSUME DiagInv, DiagRecord, [Diag!DiagNext]_(Diag!diagVars)
                 PROVE  DiagInv' /\ DiagRecord'
    OBVIOUS
  <2>2. CASE Diag!DiagNext
    BY <2>1, <2>2, WalkKeeps, ShowKeeps, IsFileKeeps, CosaveExistsKeeps, ScanGoesOnKeeps,
       GameActsKeeps DEF Diag!DiagNext
  <2>3. CASE UNCHANGED Diag!diagVars
    BY <2>1, <2>3 DEF Diag!diagVars, DiagInv, DiagTypes, MissingInv, FoundInv, DiagRecord,
       Diag!Warned, Diag!Listed, Diag!NoFiles, Diag!Save, Diag!Cosave
  <2>. QED
    BY <2>1, <2>2, <2>3
<1>3. DiagInv => Diag!ScansTrue
  <2>1. SUFFICES ASSUME DiagInv, diag.at = "shown"
                 PROVE  Diag!ScansTrue
    BY DEF Diag!ScansTrue, Diag!WarnsOfMissing, Diag!LooseCountedOnce
  <2>2. Diag!WarnsOfMissing
    BY <2>1 DEF DiagInv, MissingInv, Diag!WarnsOfMissing
  <2>3. ASSUME NEW f \in lying
        PROVE  \E found \in Diag!Listed :
                 Diag!Cardinality({c \in DOMAIN found : f \in found[c]}) = 1
    <3>1. PICK k \in CategoryNames : \A c \in CategoryNames : f \in diag.found[c] <=> c = k
      BY <2>1, <2>3 DEF DiagInv, FoundInv
    <3>2. DOMAIN diag.found = CategoryNames
      BY <2>1 DEF DiagInv, FoundInv
    <3>3. diag.found # Diag!NoFiles
      BY <3>1, NoFilesIsNone
    <3>4. {c \in DOMAIN diag.found : f \in diag.found[c]} = {k}
      BY <3>1, <3>2
    <3>5. Diag!Cardinality({k}) = Cardinality({k}) /\ Cardinality({k}) = 1
      <4>1. Diag!Cardinality({k}) = Cardinality({k})
        BY DEF Diag!Cardinality, Cardinality
      <4>. QED
        BY <4>1, FS_Singleton
    <3>6. diag.found \in Diag!Listed
      BY <2>1, <3>3 DEF DiagInv, FoundInv
    <3>. QED
      BY <3>4, <3>5, <3>6
  <2>4. Diag!LooseCountedOnce
    BY <2>3 DEF Diag!LooseCountedOnce
  <2>. QED
    BY <2>2, <2>4 DEF Diag!ScansTrue
<1>. QED
  BY <1>1, <1>2, <1>3, PTL DEF DiagSpec

(***************************************************************************)
(* PluginFiles: what a file must answer to become a plugin.                *)
(***************************************************************************)

FilesSpec == PlFiles!FilesInit /\ [][PlFiles!FilesNext]_(PlFiles!fileVars)

\* Where a library is, and what it has answered by then.
LibraryInv ==
  /\ todo \in {"open", "rustc", "create", "api", "manifest", "live", "drop", "gone"}
  /\ todo \notin {"open", "drop", "gone"} => file.opens
  /\ todo \in {"create", "api", "manifest", "live"} => file.rustc = Host
  /\ todo = "rustc" => ran = << >>
  /\ file.rustc # Host => ran = << >> \/ ran = << "create_plugin_rustc_version" >>
  /\ object => file.rustc = Host
  /\ todo \in {"api", "manifest", "live"} => object /\ file.creates \notin {Absent, Bad}
  /\ todo \in {"open", "rustc", "create"} => ~ object
  /\ todo \in {"manifest", "live"} => PlFiles!Compatible(file.requires)
  /\ outcome = "refused" =>
       \/ ~ file.opens \/ file.rustc # Host \/ file.creates \in {Absent, Bad}
       \/ ~ PlFiles!Compatible(file.requires)

\* Where a script is: the functions before the next one have not failed.
ScriptInv ==
  /\ todo \in {"open", "metadata", "manifest", "live", "drop", "gone"}
  /\ todo = "metadata" => ~ object
  /\ todo \notin {"open", "drop", "gone"} => file.opens
  /\ todo \in {"open", "metadata"} =>
       \A i \in 1 .. Len(ran) : file.fails # PlFiles!Metadata[i]
  /\ todo \in {"manifest", "live"} =>
       /\ file.fails = Absent /\ file.parses /\ file.requires # Bad
       /\ PlFiles!Compatible(file.requires)
  /\ outcome = "refused" =>
       \/ ~ file.opens \/ file.fails # Absent \/ ~ file.parses \/ file.requires = Bad
       \/ ~ PlFiles!Compatible(file.requires)

FileFunctions ==
  {"create_plugin_rustc_version", "create_plugin", "plugin_id", "plugin_name",
   "plugin_version", "plugin_author", "plugin_description",
   "plugin_required_api_version"}

FilesInv ==
  /\ file \in Files /\ ran \in Seq(FileFunctions)
  /\ mapped \in BOOLEAN /\ object \in BOOLEAN
  /\ todo = "open" => ran = << >> /\ ~ object
  /\ todo \notin {"open", "drop", "gone"} => mapped
  /\ object => mapped /\ todo # "gone"
  /\ todo = "gone" => ~ mapped
  /\ todo \in {"live", "drop", "gone"} <=> outcome # "none"
  /\ outcome \in {"none", "loaded", "refused"}
  /\ todo = "live" => outcome = "loaded"
  /\ file.kind = "so" => LibraryInv
  /\ file.kind = "rhai" => ScriptInv
  /\ outcome = "loaded" =>
       /\ file.opens /\ PlFiles!Compatible(file.requires)
       /\ file.kind = "so" => file.rustc = Host /\ file.creates \notin {Absent, Bad}
       /\ file.kind = "rhai" =>
            file.fails = Absent /\ file.parses /\ file.requires # Bad

LEMMA MetadataNames ==
  /\ Len(PlFiles!Metadata) = 6
  /\ \A i \in 1 .. 6 : PlFiles!Metadata[i] \in FileFunctions
<1>1. Len(PlFiles!Metadata) = 6
  BY DEF PlFiles!Metadata
<1>2. \A i \in 1 .. 6 : i = 1 \/ i = 2 \/ i = 3 \/ i = 4 \/ i = 5 \/ i = 6
  OBVIOUS
<1>3. /\ PlFiles!Metadata[1] \in FileFunctions /\ PlFiles!Metadata[2] \in FileFunctions
      /\ PlFiles!Metadata[3] \in FileFunctions /\ PlFiles!Metadata[4] \in FileFunctions
      /\ PlFiles!Metadata[5] \in FileFunctions /\ PlFiles!Metadata[6] \in FileFunctions
  BY DEF PlFiles!Metadata, FileFunctions
<1>. QED
  BY <1>1, <1>2, <1>3

LEMMA AppendedCall ==
  ASSUME NEW s \in Seq(FileFunctions), NEW f \in FileFunctions
  PROVE  /\ Append(s, f) \in Seq(FileFunctions)
         /\ Len(Append(s, f)) = Len(s) + 1 /\ Len(s) \in Nat
OBVIOUS

LEMMA LibraryStepKeeps ==
  ASSUME FilesInv, file.kind = "so",
         PlFiles!OpenLibrary \/ PlFiles!CheckToolchain \/ PlFiles!CreatePlugin
           \/ PlFiles!CheckApi
  PROVE  FilesInv'
<1>1. file' = file /\ file \in Files /\ file.opens \in BOOLEAN
  BY FileAnswers DEF FilesInv, PlFiles!OpenLibrary, PlFiles!CheckToolchain,
     PlFiles!CreatePlugin, PlFiles!CheckApi
<1>2. CASE PlFiles!OpenLibrary
  BY <1>1, <1>2 DEF FilesInv, LibraryInv, PlFiles!OpenLibrary, PlFiles!Refuse,
     PlFiles!Becomes, PlFiles!Compatible
<1>3. CASE PlFiles!CheckToolchain
  <2>1. ran' \in Seq(FileFunctions)
    BY <1>3, AppendedCall DEF FilesInv, PlFiles!CheckToolchain, PlFiles!Call,
       PlFiles!Symbols, FileFunctions
  <2>2. ran' = << >> \/ ran' = << "create_plugin_rustc_version" >>
    BY <1>3 DEF FilesInv, LibraryInv, PlFiles!CheckToolchain, PlFiles!Call, PlFiles!Symbols
  <2>. QED
    BY <1>1, <1>3, <2>1, <2>2 DEF FilesInv, LibraryInv, PlFiles!CheckToolchain,
       PlFiles!Refuse, PlFiles!Becomes, PlFiles!SameToolchain, PlFiles!Compatible
<1>4. CASE PlFiles!CreatePlugin
  <2>1. ran' \in Seq(FileFunctions)
    BY <1>4, AppendedCall DEF FilesInv, PlFiles!CreatePlugin, PlFiles!Call,
       PlFiles!Symbols, FileFunctions
  <2>. QED
    BY <1>1, <1>4, <2>1 DEF FilesInv, LibraryInv, PlFiles!CreatePlugin, PlFiles!Refuse,
       PlFiles!Becomes, PlFiles!Compatible
<1>5. CASE PlFiles!CheckApi
  BY <1>1, <1>5 DEF FilesInv, LibraryInv, PlFiles!CheckApi, PlFiles!Refuse,
     PlFiles!Becomes, PlFiles!Compatible
<1>. QED
  BY <1>2, <1>3, <1>4, <1>5

LEMMA ScriptStepKeeps ==
  ASSUME FilesInv, file.kind = "rhai",
         PlFiles!OpenScript \/ PlFiles!ExtractStr \/ PlFiles!ParseVersions
  PROVE  FilesInv'
<1>1. file' = file /\ file \in Files /\ file.opens \in BOOLEAN /\ file.parses \in BOOLEAN
  BY FileAnswers DEF FilesInv, PlFiles!OpenScript, PlFiles!ExtractStr,
     PlFiles!ParseVersions
<1>2. CASE PlFiles!OpenScript
  BY <1>1, <1>2 DEF FilesInv, ScriptInv, PlFiles!OpenScript, PlFiles!Refuse,
     PlFiles!Becomes, PlFiles!Compatible
<1>3. CASE PlFiles!ExtractStr
  <2>1. /\ todo = "metadata" /\ ran \in Seq(FileFunctions) /\ ScriptInv
        /\ Len(ran) + 1 <= 6 /\ Len(ran) \in Nat
        /\ UNCHANGED <<file, mapped, object, caps>>
    BY <1>3, MetadataNames DEF FilesInv, PlFiles!ExtractStr
  <2>2. CASE file.fails = PlFiles!Metadata[Len(ran) + 1]
    <3>1. ran' = ran /\ todo' = "drop" /\ outcome' = "refused"
      BY <1>3, <2>2 DEF PlFiles!ExtractStr, PlFiles!Refuse
    <3>2. file.fails # Absent
      BY <2>1, <2>2, FileAnswers
    <3>. QED
      BY <1>1, <2>1, <3>1, <3>2 DEF FilesInv, ScriptInv
  <2>3. CASE file.fails # PlFiles!Metadata[Len(ran) + 1]
    <3>1. /\ ran' = Append(ran, PlFiles!Metadata[Len(ran) + 1])
          /\ todo' = todo /\ outcome' = outcome
      BY <1>3, <2>3 DEF PlFiles!ExtractStr, PlFiles!Call
    <3>2. PlFiles!Metadata[Len(ran) + 1] \in FileFunctions
      BY <2>1, MetadataNames
    <3>3. ran' \in Seq(FileFunctions) /\ Len(ran') = Len(ran) + 1
      BY <2>1, <3>1, <3>2, AppendedCall
    <3>4. \A i \in 1 .. Len(ran') : file.fails # PlFiles!Metadata[i]
      BY <2>1, <2>3, <3>3 DEF ScriptInv
    <3>. QED
      BY <1>1, <2>1, <3>1, <3>3, <3>4 DEF FilesInv, ScriptInv, PlFiles!Compatible
  <2>. QED
    BY <2>2, <2>3
<1>4. CASE PlFiles!ParseVersions
  <2>1. file.fails = Absent
    BY <1>1, <1>4, MetadataNames, FileAnswers DEF FilesInv, ScriptInv,
       PlFiles!ParseVersions
  <2>2. file.requires # Bad =>
          (PlFiles!ScriptCompatible(file.requires) <=> PlFiles!Compatible(file.requires))
    BY <1>1, FileAnswers DEF PlFiles!ScriptCompatible, PlFiles!Compatible
  <2>. QED
    BY <1>1, <1>4, <2>1, <2>2 DEF FilesInv, ScriptInv, PlFiles!ParseVersions, PlFiles!Refuse,
       PlFiles!Becomes, PlFiles!Compatible
<1>. QED
  BY <1>2, <1>3, <1>4

LEMMA EndStepKeeps ==
  ASSUME FilesInv,
         PlFiles!ReadManifest \/ PlFiles!Unload \/ PlFiles!DropObject \/ PlFiles!DropLibrary
  PROVE  FilesInv'
<1>1. file' = file /\ ran' = ran /\ file \in Files
      /\ (file.kind = "so" \/ file.kind = "rhai")
  BY FileAnswers DEF FilesInv, PlFiles!ReadManifest, PlFiles!Unload, PlFiles!DropObject,
     PlFiles!DropLibrary
<1>2. CASE PlFiles!ReadManifest
  BY <1>1, <1>2 DEF FilesInv, LibraryInv, ScriptInv, PlFiles!ReadManifest, PlFiles!Becomes,
     PlFiles!Compatible
<1>3. CASE PlFiles!Unload
  BY <1>1, <1>3 DEF FilesInv, LibraryInv, ScriptInv, PlFiles!Unload, PlFiles!Becomes,
     PlFiles!Compatible
<1>4. CASE PlFiles!DropObject
  BY <1>1, <1>4 DEF FilesInv, LibraryInv, ScriptInv, PlFiles!DropObject, PlFiles!Compatible
<1>5. CASE PlFiles!DropLibrary
  BY <1>1, <1>5 DEF FilesInv, LibraryInv, ScriptInv, PlFiles!DropLibrary, PlFiles!Compatible
<1>. QED
  BY <1>2, <1>3, <1>4, <1>5

\* native.rs and scripted.rs, for any files, toolchains and versions: only what this
\* toolchain has compiled is called into, no object outlives its library, and a
\* file is loaded exactly when it answers every question.
THEOREM PluginFilesAreSound == FilesSpec => []PlFiles!PluginFilesSound
<1>1. PlFiles!FilesInit => FilesInv
  <2>1. SUFFICES ASSUME PlFiles!FilesInit PROVE FilesInv
    OBVIOUS
  <2>2. ran = << >> /\ ran \in Seq(FileFunctions) /\ Len(ran) = 0
    BY <2>1 DEF PlFiles!FilesInit
  <2>3. \A i \in 1 .. Len(ran) : file.fails # PlFiles!Metadata[i]
    BY <2>2
  <2>. QED
    BY <2>1, <2>2, <2>3 DEF PlFiles!FilesInit, FilesInv, LibraryInv, ScriptInv
<1>2. FilesInv /\ [PlFiles!FilesNext]_(PlFiles!fileVars) => FilesInv'
  <2>1. SUFFICES ASSUME FilesInv, [PlFiles!FilesNext]_(PlFiles!fileVars) PROVE FilesInv'
    OBVIOUS
  <2>2. file.kind = "so" \/ file.kind = "rhai"
    BY <2>1, FileAnswers DEF FilesInv
  <2>3. CASE PlFiles!OpenLibrary \/ PlFiles!CheckToolchain \/ PlFiles!CreatePlugin
               \/ PlFiles!CheckApi
    <3>1. file.kind = "so"
      BY <2>1, <2>2, <2>3 DEF FilesInv, ScriptInv, PlFiles!OpenLibrary,
         PlFiles!CheckToolchain, PlFiles!CreatePlugin, PlFiles!CheckApi
    <3>. QED
      BY <2>1, <2>3, <3>1, LibraryStepKeeps
  <2>4. CASE PlFiles!OpenScript \/ PlFiles!ExtractStr \/ PlFiles!ParseVersions
    <3>1. file.kind = "rhai"
      BY <2>1, <2>2, <2>4 DEF FilesInv, LibraryInv, PlFiles!OpenScript,
         PlFiles!ExtractStr, PlFiles!ParseVersions
    <3>. QED
      BY <2>1, <2>4, <3>1, ScriptStepKeeps
  <2>5. CASE PlFiles!ReadManifest \/ PlFiles!Unload \/ PlFiles!DropObject
               \/ PlFiles!DropLibrary
    BY <2>1, <2>5, EndStepKeeps
  <2>6. CASE UNCHANGED PlFiles!fileVars
    BY <2>1, <2>6 DEF PlFiles!fileVars, FilesInv, LibraryInv, ScriptInv, PlFiles!Compatible
  <2>. QED
    BY <2>1, <2>3, <2>4, <2>5, <2>6 DEF PlFiles!FilesNext
<1>3. FilesInv => PlFiles!PluginFilesSound
  <2>1. SUFFICES ASSUME FilesInv PROVE PlFiles!PluginFilesSound
    OBVIOUS
  <2>2. file.kind = "so" \/ file.kind = "rhai"
    BY <2>1, FileAnswers DEF FilesInv
  <2>3. PlFiles!NoForeignObject
    <3>1. SUFFICES ASSUME file.kind = "so", file.rustc # Host
                   PROVE  ~ object /\ ~ PlFiles!Called("create_plugin")
      BY DEF PlFiles!NoForeignObject, PlFiles!Symbols
    <3>2. ran = << >> \/ ran = << "create_plugin_rustc_version" >>
      BY <2>1, <3>1 DEF FilesInv, LibraryInv
    <3>. QED
      BY <2>1, <3>1, <3>2 DEF FilesInv, LibraryInv, PlFiles!Called
  <2>4. PlFiles!ObjectInLibrary
    BY <2>1 DEF FilesInv, PlFiles!ObjectInLibrary
  <2>5. PlFiles!LoadsExactly
    BY <2>1, <2>2, FileAnswers DEF FilesInv, LibraryInv, ScriptInv,
       PlFiles!LoadsExactly, PlFiles!Compatible
  <2>. QED
    BY <2>3, <2>4, <2>5 DEF PlFiles!PluginFilesSound
<1>. QED
  BY <1>1, <1>2, <1>3, PTL DEF FilesSpec

(***************************************************************************)
(* Backend: which backend a machine gets, and what a kernel mount leaves.  *)
(***************************************************************************)

BackendSpec == Bk!BackendInit /\ [][Bk!BackendNext]_(Bk!backendVars)

\* Releases are pairs of numbers.
BackendConstants ==
  /\ \A k \in Kernels : k[1] \in Nat /\ k[2] \in Nat
  /\ None \notin BOOLEAN \cup TierNames

LEMMA BackendConstantsHold == BackendConstants
BY NoneIsNone, ListsAndNumbers DEF BackendConstants

MountPlaces == {"none", "failed", "configure", "move", "verify", "undo", "mounted"}

BackendTypes ==
  /\ machine \in [flatpak : BOOLEAN, kernel : Kernels, fsopen : BOOLEAN, binary : BOOLEAN]
  /\ probed \in [flatpak : BOOLEAN \cup {None}, fsopen : BOOLEAN \cup {None},
                 binary : BOOLEAN \cup {None}]
  /\ tier \in TierNames \cup {None} /\ lastTier \in TierNames \cup {None}
  /\ at \in MountPlaces
  /\ fsfd \in BOOLEAN /\ mntfd \in BOOLEAN
  /\ dirs \in BOOLEAN /\ attached \in BOOLEAN /\ orphan \in BOOLEAN

\* A probe that has been made said what the machine is like still, unless the
\* binary has come since; once a tier is chosen, every probe it rests on is made.
ProbesInv ==
  /\ probed.flatpak \in {None, machine.flatpak}
  /\ probed.fsopen \in {None, machine.fsopen}
  /\ probed.binary = TRUE => machine.binary
  /\ tier # None => Bk!Choice = tier /\ \A w \in Bk!Asked : probed[w] # None

\* What a process is told now is no lower than what the one before it was told.
GainsInv == lastTier # None => Bk!Rank(Bk!Choice) >= Bk!Rank(lastTier)

\* A descriptor is open in the one step that has it; what is attached has its
\* directories until somebody takes it off.
MountInv ==
  /\ fsfd => at = "configure"
  /\ mntfd => at = "move"
  /\ at \in {"configure", "move"} => ~ attached
  /\ at \in {"configure", "move", "verify", "undo", "mounted"} => dirs
  /\ attached /\ ~ orphan => at \in {"verify", "undo", "mounted"}

BackendInv == BackendTypes /\ ProbesInv /\ GainsInv /\ MountInv

LEMMA Ranks ==
  /\ Bk!Rank("symlink-farm") = 1
  /\ Bk!Rank("fuse-overlayfs") = 2
  /\ Bk!Rank("kernel-overlayfs") = 3
<1>1. /\ Bk!Tiers[1] = "symlink-farm" /\ Bk!Tiers[2] = "fuse-overlayfs"
      /\ Bk!Tiers[3] = "kernel-overlayfs"
  BY DEF Bk!Tiers
<1>2. \A i \in 1 .. 3 : i = 1 \/ i = 2 \/ i = 3
  OBVIOUS
<1>3. \A i \in 1 .. 3 : Bk!Tiers[i] = "symlink-farm" <=> i = 1
  BY <1>1, <1>2
<1>4. \A i \in 1 .. 3 : Bk!Tiers[i] = "fuse-overlayfs" <=> i = 2
  BY <1>1, <1>2
<1>5. \A i \in 1 .. 3 : Bk!Tiers[i] = "kernel-overlayfs" <=> i = 3
  BY <1>1, <1>2
<1>. QED
  BY <1>1, <1>3, <1>4, <1>5 DEF Bk!Rank

LEMMA ChoiceIsTier == Bk!Choice \in TierNames
BY DEF Bk!Choice, TierNames

\* Every step but those that choose leaves the choice alone.
LEMMA MountStepKeeps ==
  ASSUME BackendConstants, BackendInv,
         Bk!Begin \/ Bk!Configure \/ Bk!MoveMount \/ Bk!Verify \/ Bk!Undo \/ Bk!Unmount
           \/ Bk!TeardownStale
  PROVE  BackendInv'
<1>1. UNCHANGED <<machine, probed, tier, lastTier>>
  BY DEF Bk!Begin, Bk!Configure, Bk!MoveMount, Bk!Verify, Bk!Undo, Bk!Unmount, Bk!TeardownStale,
     Bk!Choosing
<1>2. BackendTypes'
  <2>1. at' \in MountPlaces
    BY DEF BackendInv, BackendTypes, MountPlaces, Bk!Begin, Bk!Configure, Bk!MoveMount,
       Bk!Verify, Bk!Undo, Bk!Unmount, Bk!TeardownStale, Bk!Fail, Bk!Umount
  <2>2. fsfd' \in BOOLEAN /\ mntfd' \in BOOLEAN
    BY DEF BackendInv, BackendTypes, MountPlaces, Bk!Begin, Bk!Configure, Bk!MoveMount,
       Bk!Verify, Bk!Undo, Bk!Unmount, Bk!TeardownStale, Bk!Fail, Bk!Umount
  <2>3. dirs' \in BOOLEAN /\ attached' \in BOOLEAN /\ orphan' \in BOOLEAN
    BY DEF BackendInv, BackendTypes, MountPlaces, Bk!Begin, Bk!Configure, Bk!MoveMount,
       Bk!Verify, Bk!Undo, Bk!Unmount, Bk!TeardownStale, Bk!Fail, Bk!Umount
  <2>. QED
    BY <1>1, <2>1, <2>2, <2>3 DEF BackendInv, BackendTypes
<1>3. ProbesInv' /\ GainsInv'
  BY <1>1 DEF BackendInv, ProbesInv, GainsInv, Bk!Choice, Bk!Asked, Bk!Found, Bk!AtLeast
<1>4. MountInv'
  BY DEF BackendInv, BackendTypes, MountPlaces, MountInv, Bk!Begin, Bk!Configure, Bk!MoveMount,
     Bk!Verify, Bk!Undo, Bk!Unmount, Bk!TeardownStale, Bk!Fail, Bk!Umount
<1>. QED
  BY <1>2, <1>3, <1>4 DEF BackendInv

\* select_backend answers with the choice; what it asks is now known.
LEMMA SelectKeeps ==
  ASSUME BackendConstants, BackendInv, Bk!SelectBackend
  PROVE  BackendInv'
<1>1. /\ machine' = machine /\ lastTier' = lastTier /\ UNCHANGED Bk!mountVars
      /\ tier' = Bk!Choice
      /\ probed' = [w \in DOMAIN probed |-> IF w \in Bk!Asked THEN Bk!Found(w) ELSE probed[w]]
  BY DEF Bk!SelectBackend
<1>2. DOMAIN probed = {"flatpak", "fsopen", "binary"}
  BY DEF BackendInv, BackendTypes
<1>3. \A w \in {"flatpak", "fsopen", "binary"} :
        /\ probed[w] \in BOOLEAN \cup {None} /\ machine[w] \in BOOLEAN
        /\ Bk!Found(w) \in BOOLEAN
  BY DEF BackendInv, BackendTypes, Bk!Found
<1>4. \A w \in {"flatpak", "fsopen", "binary"} :
        probed'[w] = IF w \in Bk!Asked THEN Bk!Found(w) ELSE probed[w]
  BY <1>1, <1>2
<1>5. \A w \in {"flatpak", "fsopen", "binary"} : Bk!Found(w)' = Bk!Found(w)
  BY <1>1, <1>3, <1>4 DEF Bk!Found
<1>6. Bk!Choice' = Bk!Choice /\ Bk!Asked' = Bk!Asked
  BY <1>1, <1>5 DEF Bk!Choice, Bk!Asked, Bk!AtLeast
<1>7. BackendTypes'
  <2>1. probed' \in [flatpak : BOOLEAN \cup {None}, fsopen : BOOLEAN \cup {None},
                     binary : BOOLEAN \cup {None}]
    <3>1. probed' = [flatpak |-> probed'["flatpak"], fsopen |-> probed'["fsopen"],
                     binary |-> probed'["binary"]]
      BY <1>1, <1>2
    <3>2. \A w \in {"flatpak", "fsopen", "binary"} : probed'[w] \in BOOLEAN \cup {None}
      BY <1>3, <1>4
    <3>. QED
      BY <3>1, <3>2
  <2>. QED
    BY <1>1, <2>1, ChoiceIsTier DEF BackendInv, BackendTypes, Bk!mountVars
<1>8. ProbesInv'
  <2>1. \A w \in Bk!Asked : w \in {"flatpak", "fsopen", "binary"}
    BY DEF Bk!Asked
  <2>2. \A w \in Bk!Asked : probed'[w] # None
    BY <1>3, <1>4, <2>1 DEF BackendConstants
  <2>3. /\ probed'.flatpak \in {None, machine.flatpak}
        /\ probed'.fsopen \in {None, machine.fsopen}
        /\ probed'.binary = TRUE => machine.binary
    BY <1>3, <1>4 DEF BackendInv, ProbesInv, Bk!Found
  <2>. QED
    BY <1>1, <1>6, <2>2, <2>3 DEF ProbesInv
<1>9. GainsInv' /\ MountInv'
  BY <1>1, <1>6 DEF BackendInv, GainsInv, MountInv, Bk!mountVars, Bk!Rank
<1>. QED
  BY <1>7, <1>8, <1>9 DEF BackendInv

\* A machine that gains is told at least what it was told before.
LEMMA MoreIsNotLower ==
  ASSUME BackendConstants, BackendTypes,
         Bk!Found("flatpak")' = Bk!Found("flatpak"),
         Bk!Found("fsopen") => Bk!Found("fsopen")',
         Bk!Found("binary") => Bk!Found("binary")',
         Bk!AtLeast(6, 6) => Bk!AtLeast(6, 6)',
         Bk!AtLeast(5, 11) => Bk!AtLeast(5, 11)',
         NEW t, t = Bk!Choice, NEW u, u = Bk!Choice'
  PROVE  Bk!Rank(u) >= Bk!Rank(t)
<1>1. Bk!AtLeast(6, 6) => Bk!AtLeast(5, 11)
  BY DEF Bk!AtLeast, BackendConstants, BackendTypes
<1>2. \/ t = "kernel-overlayfs" /\ u = "kernel-overlayfs"
      \/ t = "fuse-overlayfs" /\ u \in {"fuse-overlayfs", "kernel-overlayfs"}
      \/ t = "symlink-farm" /\ u \in TierNames
  BY <1>1 DEF Bk!Choice, TierNames
<1>. QED
  BY <1>2, Ranks DEF TierNames

\* The binary comes: what has been asked keeps its answer.
LEMMA InstallBinaryKeeps ==
  ASSUME BackendConstants, BackendInv, Bk!InstallBinary
  PROVE  BackendInv'
<1>1. /\ machine' = [machine EXCEPT !.binary = TRUE] /\ UNCHANGED Bk!mountVars
      /\ probed' = probed /\ tier' = tier /\ lastTier' = lastTier
  BY DEF Bk!InstallBinary
<1>2. /\ machine'.flatpak = machine.flatpak /\ machine'.fsopen = machine.fsopen
      /\ machine'.kernel = machine.kernel /\ machine'.binary = TRUE
  BY <1>1 DEF BackendInv, BackendTypes
<1>3. /\ Bk!Found("flatpak")' = Bk!Found("flatpak") /\ Bk!Found("fsopen")' = Bk!Found("fsopen")
      /\ Bk!Found("binary") => Bk!Found("binary")'
      /\ probed["binary"] # None => Bk!Found("binary")' = Bk!Found("binary")
  BY <1>1, <1>2 DEF Bk!Found, BackendInv, BackendTypes
<1>4. /\ Bk!AtLeast(6, 6)' = Bk!AtLeast(6, 6) /\ Bk!AtLeast(5, 11)' = Bk!AtLeast(5, 11)
  BY <1>2 DEF Bk!AtLeast
<1>5. Bk!Asked' = Bk!Asked
  BY <1>3, <1>4 DEF Bk!Asked
<1>6. BackendTypes'
  <2>1. machine' \in [flatpak : BOOLEAN, kernel : Kernels, fsopen : BOOLEAN, binary : BOOLEAN]
    BY <1>1 DEF BackendInv, BackendTypes
  <2>. QED
    BY <1>1, <2>1 DEF BackendInv, BackendTypes, Bk!mountVars
<1>7. tier # None => Bk!Choice' = Bk!Choice
  <2>1. SUFFICES ASSUME tier # None PROVE Bk!Choice' = Bk!Choice
    OBVIOUS
  <2>2. "binary" \in Bk!Asked => Bk!Found("binary")' = Bk!Found("binary")
    BY <1>3, <2>1 DEF BackendInv, ProbesInv
  <2>3. "binary" \notin Bk!Asked => Bk!Found("flatpak") \/ Bk!AtLeast(5, 11)
    BY DEF Bk!Asked
  <2>. QED
    BY <1>3, <1>4, <2>2, <2>3 DEF Bk!Choice
<1>8. ProbesInv'
  BY <1>1, <1>2, <1>5, <1>7 DEF BackendInv, ProbesInv
<1>9. GainsInv'
  <2>1. PICK t, u : t = Bk!Choice /\ u = Bk!Choice'
    OBVIOUS
  <2>2. Bk!Rank(u) >= Bk!Rank(t)
    BY <1>3, <1>4, <2>1, MoreIsNotLower DEF BackendInv
  <2>3. t \in TierNames /\ u \in TierNames
    BY <2>1 DEF Bk!Choice, TierNames
  <2>4. lastTier # None => Bk!Rank(t) >= Bk!Rank(lastTier)
    BY <2>1 DEF BackendInv, GainsInv
  <2>5. lastTier # None => Bk!Rank(u) >= Bk!Rank(lastTier)
    BY <2>2, <2>3, <2>4, Ranks DEF TierNames, BackendInv, BackendTypes
  <2>6. lastTier' # None => Bk!Rank(u) >= Bk!Rank(lastTier')
    BY <1>1, <2>5
  <2>. QED
    BY <2>1, <2>6 DEF GainsInv, Bk!Rank
<1>10. MountInv'
  BY <1>1 DEF BackendInv, MountInv, Bk!mountVars
<1>. QED
  BY <1>6, <1>8, <1>9, <1>10 DEF BackendInv

\* A new process knows nothing yet, and its machine is no worse.
LEMMA RestartKeeps ==
  ASSUME BackendConstants, BackendInv, Bk!Restart
  PROVE  BackendInv'
<1>1. /\ tier # None /\ probed' = Bk!NotProbed /\ tier' = None /\ lastTier' = tier
      /\ at' = "none" /\ fsfd' = FALSE /\ mntfd' = FALSE
  BY DEF Bk!Restart
<1>2. /\ machine' \in [flatpak : BOOLEAN, kernel : Kernels, fsopen : BOOLEAN, binary : BOOLEAN]
      /\ machine'.flatpak = machine.flatpak /\ machine'.binary = machine.binary
      /\ machine.fsopen => machine'.fsopen
      /\ \/ machine'.kernel = machine.kernel
         \/ machine'.kernel[1] > machine.kernel[1]
         \/ machine'.kernel[1] = machine.kernel[1] /\ machine'.kernel[2] > machine.kernel[2]
  <2>1. CASE machine' = machine
    BY <2>1 DEF BackendInv, BackendTypes
  <2>2. CASE machine' # machine
    <3>1. PICK k \in Kernels, f \in BOOLEAN :
            /\ \/ k[1] > machine.kernel[1]
               \/ k[1] = machine.kernel[1] /\ k[2] > machine.kernel[2]
            /\ machine' = [machine EXCEPT !.kernel = k, !.fsopen = machine.fsopen \/ f]
      BY <2>2 DEF Bk!Restart
    <3>. QED
      BY <3>1 DEF BackendInv, BackendTypes
  <2>. QED
    BY <2>1, <2>2
<1>3. machine'.kernel \in Kernels /\ machine.kernel \in Kernels
  BY <1>2 DEF BackendInv, BackendTypes
<1>4. /\ Bk!AtLeast(6, 6) => Bk!AtLeast(6, 6)'
      /\ Bk!AtLeast(5, 11) => Bk!AtLeast(5, 11)'
  BY <1>2, <1>3 DEF Bk!AtLeast, BackendConstants
<1>5. /\ probed'["flatpak"] = None /\ probed'["fsopen"] = None /\ probed'["binary"] = None
  BY <1>1 DEF Bk!NotProbed
<1>6. /\ Bk!Found("flatpak")' = Bk!Found("flatpak")
      /\ Bk!Found("fsopen") => Bk!Found("fsopen")'
      /\ Bk!Found("binary") => Bk!Found("binary")'
  BY <1>2, <1>5 DEF Bk!Found, BackendInv, BackendTypes, ProbesInv, BackendConstants
<1>7. BackendTypes'
  <2>1. Bk!NotProbed \in [flatpak : BOOLEAN \cup {None}, fsopen : BOOLEAN \cup {None},
                          binary : BOOLEAN \cup {None}]
    BY DEF Bk!NotProbed
  <2>2. dirs' \in BOOLEAN /\ attached' \in BOOLEAN /\ orphan' \in BOOLEAN
    BY DEF Bk!Restart, BackendInv, BackendTypes
  <2>3. at' \in MountPlaces /\ fsfd' \in BOOLEAN /\ mntfd' \in BOOLEAN
    BY <1>1 DEF MountPlaces
  <2>. QED
    BY <1>1, <1>2, <2>1, <2>2, <2>3 DEF BackendInv, BackendTypes
<1>8. ProbesInv'
  BY <1>1, <1>5, BackendConstants DEF ProbesInv, BackendConstants
<1>9. GainsInv'
  <2>1. PICK t, u : t = Bk!Choice /\ u = Bk!Choice'
    OBVIOUS
  <2>2. Bk!Rank(u) >= Bk!Rank(t)
    BY <1>4, <1>6, <2>1, MoreIsNotLower DEF BackendInv
  <2>3. lastTier' = t
    BY <1>1, <2>1 DEF BackendInv, ProbesInv
  <2>. QED
    BY <2>1, <2>2, <2>3 DEF GainsInv, Bk!Rank
<1>10. MountInv'
  <2>1. orphan' = attached' \/ attached' = FALSE
    BY DEF Bk!Restart
  <2>. QED
    BY <1>1, <2>1 DEF MountInv
<1>. QED
  BY <1>7, <1>8, <1>9, <1>10 DEF BackendInv

\* For any kernels: one backend for the life of a process, none lower after the
\* machine has gained, and a mount that fails at any call leaves no descriptor
\* open and nothing attached that is not accounted for.
THEOREM BackendIsSound == BackendSpec => []Bk!BackendSound
<1>. USE BackendConstantsHold
<1>1. Bk!BackendInit => BackendInv
  <2>1. SUFFICES ASSUME Bk!BackendInit PROVE BackendInv
    OBVIOUS
  <2>2. Bk!NotProbed \in [flatpak : BOOLEAN \cup {None}, fsopen : BOOLEAN \cup {None},
                          binary : BOOLEAN \cup {None}]
    BY DEF Bk!NotProbed
  <2>3. BackendTypes
    BY <2>1, <2>2 DEF Bk!BackendInit, BackendTypes, MountPlaces
  <2>4. ProbesInv
    BY <2>1 DEF Bk!BackendInit, ProbesInv, Bk!NotProbed, BackendConstants
  <2>5. GainsInv /\ MountInv
    BY <2>1 DEF Bk!BackendInit, GainsInv, MountInv
  <2>. QED
    BY <2>3, <2>4, <2>5 DEF BackendInv
<1>2. BackendInv /\ [Bk!BackendNext]_(Bk!backendVars) => BackendInv'
  <2>1. SUFFICES ASSUME BackendInv, [Bk!BackendNext]_(Bk!backendVars) PROVE BackendInv'
    OBVIOUS
  <2>2. CASE Bk!BackendNext
    BY <2>1, <2>2, SelectKeeps, InstallBinaryKeeps, RestartKeeps, MountStepKeeps
       DEF Bk!BackendNext
  <2>3. CASE UNCHANGED Bk!backendVars
    <3>1. /\ UNCHANGED <<machine, probed, tier, lastTier, at, fsfd, mntfd, dirs, attached>>
          /\ orphan' = orphan
      BY <2>3 DEF Bk!backendVars
    <3>2. BackendTypes' /\ MountInv'
      BY <2>1, <3>1 DEF BackendInv, BackendTypes, MountInv
    <3>3. ProbesInv' /\ GainsInv'
      BY <2>1, <3>1 DEF BackendInv, ProbesInv, GainsInv, Bk!Choice, Bk!Asked, Bk!Found,
         Bk!AtLeast, Bk!Rank
    <3>. QED
      BY <3>2, <3>3 DEF BackendInv
  <2>. QED
    BY <2>1, <2>2, <2>3
<1>3. BackendInv => Bk!BackendSound
  BY DEF BackendInv, BackendTypes, ProbesInv, GainsInv, MountInv, Bk!BackendSound, Bk!SameTier,
     Bk!NewerNeverLower, Bk!FdsClosed, Bk!MountAccounted
<1>. QED
  BY <1>1, <1>2, <1>3, PTL DEF BackendSpec

(***************************************************************************)
(* SkseConflicts: the rows of a query, the mods of a path.                  *)
(***************************************************************************)

SeSpec == Se!SeInit /\ [][Se!SeNext]_(Se!seVars)

Dirs == Se!Range(DllFiles)
Releases == {l.version : l \in Libs}

SeTypes ==
  /\ enabled \in SUBSET Se!Ms
  /\ ships \in [Se!Ms -> SUBSET Dirs]
  /\ brings \in [Se!Ms -> SUBSET Libs]
  /\ find \in [at : {"query", "group", "libs", "done"},
               rows : SUBSET Se!Rows, slugs : Seq(Se!Ms),
               paths : [Se!Ms -> SUBSET Dirs], byPath : [Dirs -> Seq(Se!Ms)],
               byType : [Se!LibTypes -> SUBSET (Se!Ms \X Releases)]]

\* A list of mods in the order of their priorities.
Rising(s) == \A i, j \in DOMAIN s : i < j => Se!Place(s[i]) < Se!Place(s[j])
Among(m, s) == \E i \in DOMAIN s : s[i] = m

\* Both lists are in order, and those that a path has already come before the others.
OrderInv ==
  /\ Rising(find.slugs)
  /\ \A r \in find.rows, m \in Se!Ms : Among(m, find.slugs) => Se!Place(m) <= r[1]
  /\ \A d \in Dirs :
       /\ Rising(find.byPath[d])
       /\ \A m, k \in Se!Ms : Among(m, find.byPath[d]) /\ Among(k, find.slugs) =>
            Se!Place(m) < Se!Place(k)

\* What has been read is in the entries; an entry is among those to be turned around
\* until the path has its mod.
GroupInv ==
  /\ find.at = "query" => find.rows = {} /\ find.slugs = <<>>
                          /\ \A m \in Se!Ms : find.paths[m] = {}
  /\ find.at = "query" \/ find.rows # {} => \A d \in Dirs : find.byPath[d] = <<>>
  /\ \A m \in Se!Ms : Among(m, find.slugs) => find.paths[m] # {}
  /\ \A m \in Se!Ms, d \in Dirs : Among(m, find.byPath[d]) => d \in find.paths[m]
  /\ \A m \in Se!Ms : \A d \in find.paths[m] :
       /\ d \in SePlugins /\ m \in enabled /\ d \in ships[m]
       /\ Among(m, find.slugs) \/ Among(m, find.byPath[d])
  /\ find.at = "group" => \A r \in Se!Rows \ find.rows :
       DllFiles[r[2]] \in SePlugins => DllFiles[r[2]] \in find.paths[ModOrder[r[1]]]

\* What has been read of the libraries, and what comes.
LibsInv ==
  /\ \A t \in Se!LibTypes, m \in Se!Ms, v \in Releases :
       <<m, v>> \in find.byType[t] => \E l \in brings[m] : l.type = t /\ l.version = v
  /\ find.at \in {"libs", "done"} =>
       \A t \in Se!LibTypes, m \in Se!Ms : \A l \in brings[m] :
         l.type = t => <<m, l.version>> \in find.byType[t]
                       \/ (find.at = "libs" /\ Among(m, find.slugs))
  /\ find.at # "done" => libConflicts = {}

SeInv ==
  /\ SeTypes /\ LibsInv
  /\ find.at \in {"query", "group"} => OrderInv /\ GroupInv
  /\ Se!DllConflictsExact /\ Se!LibConflictsExact

LEMMA PlacesAre ==
  /\ Se!Ms = {ModOrder[i] : i \in DOMAIN ModOrder}
  /\ \A i \in DOMAIN ModOrder : i \in Nat /\ Se!Place(ModOrder[i]) = i
  /\ \A m \in Se!Ms : /\ Se!Place(m) \in DOMAIN ModOrder /\ Se!Place(m) \in Nat
                      /\ ModOrder[Se!Place(m)] = m
<1>1. Se!Ms = {ModOrder[i] : i \in DOMAIN ModOrder}
  BY DEF Se!Ms, Se!Range
<1>2. \A i \in DOMAIN ModOrder : i \in Nat
  BY PlacesAreOnce
<1>3. \A i \in DOMAIN ModOrder : Se!Place(ModOrder[i]) = i
  BY PlacesAreOnce DEF Se!Place
<1>. QED
  BY <1>1, <1>2, <1>3

LEMMA RowIs ==
  ASSUME NEW r \in Se!Rows
  PROVE  /\ r[1] \in Nat /\ r[2] \in Nat
         /\ ModOrder[r[1]] \in Se!Ms /\ Se!Place(ModOrder[r[1]]) = r[1]
         /\ DllFiles[r[2]] \in Dirs
         /\ ModOrder[r[1]] \in enabled /\ DllFiles[r[2]] \in ships[ModOrder[r[1]]]
<1>1. /\ r[1] \in DOMAIN ModOrder /\ r[2] \in DOMAIN DllFiles
      /\ ModOrder[r[1]] \in enabled /\ DllFiles[r[2]] \in ships[ModOrder[r[1]]]
  BY DEF Se!Rows
<1>2. r[2] \in Nat /\ DllFiles[r[2]] \in Dirs
  BY <1>1, PlacesAreOnce DEF Dirs, Se!Range
<1>. QED
  BY <1>1, <1>2, PlacesAre

\* There is a first row.
LEMMA FirstRowIs ==
  ASSUME NEW R \in SUBSET Se!Rows, R # {}
  PROVE  /\ Se!FirstRow(R) \in R
         /\ \A s \in R : Se!FirstRow(R)[1] <= s[1]
<1>1. PICK A : A = {r[1] : r \in R}
  OBVIOUS
<1>2. A \subseteq Nat /\ A # {}
  BY <1>1, RowIs
<1>3. PICK a \in A : \A b \in A : a <= b
  BY <1>2, FirstPosition
<1>4. PICK B : B = {r[2] : r \in {s \in R : s[1] = a}}
  OBVIOUS
<1>5. B \subseteq Nat /\ B # {}
  <2>1. \A s \in R : s[2] \in Nat
    BY RowIs
  <2>2. \E s \in R : s[1] = a
    BY <1>1
  <2>. QED
    BY <1>4, <2>1, <2>2
<1>6. PICK b \in B : \A c \in B : b <= c
  BY <1>5, FirstPosition
<1>7. PICK r \in R : r[1] = a /\ r[2] = b
  BY <1>4
<1>8. \A s \in R : r[1] < s[1] \/ (r[1] = s[1] /\ r[2] <= s[2])
  <2>1. TAKE s \in R
  <2>2. s[1] \in A /\ s[1] \in Nat /\ a \in Nat /\ a <= s[1]
    BY <1>1, <1>2, <1>3
  <2>3. CASE s[1] = a
    BY <1>4, <1>6, <1>7, <2>3
  <2>4. CASE s[1] # a
    BY <1>7, <2>2, <2>4
  <2>. QED
    BY <2>3, <2>4
<1>9. PICK f : f = Se!FirstRow(R)
  OBVIOUS
<1>10. f \in R /\ \A s \in R : f[1] < s[1] \/ (f[1] = s[1] /\ f[2] <= s[2])
  BY <1>8, <1>9 DEF Se!FirstRow
<1>11. \A s \in R : f[1] <= s[1]
  <2>1. TAKE s \in R
  <2>2. f[1] \in Nat /\ s[1] \in Nat
    BY <1>10, RowIs
  <2>. QED
    BY <1>10, <2>2
<1>. QED
  BY <1>9, <1>10, <1>11

\* A mod at the end of a list.
Extends(z, s, m) == z = Append(s, m)

LEMMA AtTheEnd ==
  ASSUME NEW s \in Seq(Se!Ms), NEW m \in Se!Ms, NEW z, Extends(z, s, m)
  PROVE  /\ z \in Seq(Se!Ms)
         /\ \A k \in Se!Ms : Among(k, z) <=> Among(k, s) \/ k = m
         /\ Rising(s) /\ (\A k \in Se!Ms : Among(k, s) => Se!Place(k) < Se!Place(m))
              => Rising(z)
<1>1. PICK n \in Nat : n = Len(s)
  OBVIOUS
<1>2. /\ z \in Seq(Se!Ms) /\ DOMAIN s = 1 .. n /\ DOMAIN z = 1 .. n + 1
      /\ z[n + 1] = m /\ \A i \in 1 .. n : z[i] = s[i]
  BY <1>1 DEF Extends
<1>3. \A k \in Se!Ms : Among(k, z) <=> Among(k, s) \/ k = m
  <2>1. TAKE k \in Se!Ms
  <2>2. \A i \in 1 .. n + 1 : i \in 1 .. n \/ i = n + 1
    OBVIOUS
  <2>3. \A i \in 1 .. n : i \in 1 .. n + 1
    OBVIOUS
  <2>4. n + 1 \in 1 .. n + 1
    OBVIOUS
  <2>. QED
    BY <1>2, <2>2, <2>3, <2>4 DEF Among
<1>4. ASSUME Rising(s), \A k \in Se!Ms : Among(k, s) => Se!Place(k) < Se!Place(m)
      PROVE  Rising(z)
  <2>1. SUFFICES ASSUME NEW i \in 1 .. n + 1, NEW j \in 1 .. n + 1, i < j
                 PROVE  Se!Place(z[i]) < Se!Place(z[j])
    BY <1>2 DEF Rising
  <2>2. i \in 1 .. n
    BY <2>1
  <2>3. CASE j \in 1 .. n
    BY <1>2, <1>4, <2>1, <2>2, <2>3 DEF Rising
  <2>4. CASE j = n + 1
    <3>1. s[i] \in Se!Ms /\ Among(s[i], s)
      BY <1>2, <2>2 DEF Among
    <3>. QED
      BY <1>2, <1>4, <2>2, <2>4, <3>1
  <2>5. j \in 1 .. n \/ j = n + 1
    BY <2>1
  <2>. QED
    BY <2>3, <2>4, <2>5
<1>. QED
  BY <1>2, <1>3, <1>4

\* The first mod of a list, and the others.
LEMMA FirstAndOthers ==
  ASSUME NEW s \in Seq(Se!Ms), s # <<>>
  PROVE  /\ Head(s) \in Se!Ms /\ Tail(s) \in Seq(Se!Ms)
         /\ \A k \in Se!Ms : Among(k, s) <=> Among(k, Tail(s)) \/ k = Head(s)
         /\ Rising(s) =>
              /\ Rising(Tail(s))
              /\ \A k \in Se!Ms : Among(k, Tail(s)) => Se!Place(Head(s)) < Se!Place(k)
<1>1. PICK n \in Nat : n = Len(s)
  OBVIOUS
<1>2. PICK z : z = Tail(s)
  OBVIOUS
<1>3. PICK m : m = Head(s)
  OBVIOUS
<1>4. n # 0 /\ DOMAIN s = 1 .. n
  BY <1>1
<1>5. /\ m \in Se!Ms /\ z \in Seq(Se!Ms) /\ m = s[1] /\ DOMAIN z = 1 .. n - 1
      /\ \A i \in 1 .. n - 1 : z[i] = s[i + 1]
  BY <1>1, <1>2, <1>3, <1>4
<1>6. \A k \in Se!Ms : Among(k, s) <=> Among(k, z) \/ k = m
  <2>1. TAKE k \in Se!Ms
  <2>2. \A i \in 1 .. n : i = 1 \/ (i - 1 \in 1 .. n - 1 /\ (i - 1) + 1 = i)
    OBVIOUS
  <2>3. \A i \in 1 .. n - 1 : i + 1 \in 1 .. n
    OBVIOUS
  <2>4. 1 \in 1 .. n
    BY <1>4
  <2>5. Among(k, s) => Among(k, z) \/ k = m
    <3>1. SUFFICES ASSUME NEW i \in 1 .. n, s[i] = k, i # 1 PROVE Among(k, z)
      BY <1>4, <1>5 DEF Among
    <3>2. i - 1 \in 1 .. n - 1 /\ z[i - 1] = s[i]
      BY <1>5, <2>2, <3>1
    <3>. QED
      BY <1>5, <3>1, <3>2 DEF Among
  <2>6. Among(k, z) => Among(k, s)
    BY <1>4, <1>5, <2>3 DEF Among
  <2>. QED
    BY <1>4, <1>5, <2>4, <2>5, <2>6 DEF Among
<1>7. ASSUME Rising(s)
      PROVE  /\ Rising(z)
             /\ \A k \in Se!Ms : Among(k, z) => Se!Place(m) < Se!Place(k)
  <2>1. \A i, j \in 1 .. n : i < j => Se!Place(s[i]) < Se!Place(s[j])
    BY <1>4, <1>7 DEF Rising
  <2>2. \A i, j \in 1 .. n - 1 : i < j => Se!Place(z[i]) < Se!Place(z[j])
    <3>1. TAKE i, j \in 1 .. n - 1
    <3>2. i + 1 \in 1 .. n /\ j + 1 \in 1 .. n /\ (i < j => i + 1 < j + 1)
      OBVIOUS
    <3>. QED
      BY <1>5, <2>1, <3>2
  <2>3. \A i \in 1 .. n - 1 : Se!Place(m) < Se!Place(z[i])
    <3>1. TAKE i \in 1 .. n - 1
    <3>2. i + 1 \in 1 .. n /\ 1 \in 1 .. n /\ 1 < i + 1
      BY <1>4
    <3>. QED
      BY <1>5, <2>1, <3>2
  <2>. QED
    BY <1>5, <2>2, <2>3 DEF Rising, Among
<1>. QED
  BY <1>2, <1>3, <1>5, <1>6, <1>7

LEMMA NobodyAmongNone == \A m : ~ Among(m, <<>>)
BY DEF Among

LEMMA SeInitially == Se!SeInit => SeInv
<1>1. SUFFICES ASSUME Se!SeInit PROVE SeInv
  OBVIOUS
<1>2. /\ enabled \in SUBSET Se!Ms /\ ships \in [Se!Ms -> SUBSET Dirs]
      /\ brings \in [Se!Ms -> SUBSET Libs]
      /\ find = [at |-> "query", rows |-> {}, slugs |-> <<>>,
                 paths |-> [m \in Se!Ms |-> {}], byPath |-> [d \in Dirs |-> <<>>],
                 byType |-> [t \in Se!LibTypes |-> {}]]
      /\ dllConflicts = {} /\ libConflicts = {}
  BY <1>1 DEF Se!SeInit, Dirs
<1>3. SeTypes
  BY <1>2 DEF SeTypes
<1>4. /\ find.at = "query" /\ find.rows = {} /\ find.slugs = <<>>
      /\ \A m \in Se!Ms : find.paths[m] = {}
      /\ \A d \in Dirs : find.byPath[d] = <<>>
      /\ \A t \in Se!LibTypes : find.byType[t] = {}
  BY <1>2
<1>5. LibsInv
  BY <1>2, <1>4 DEF LibsInv
<1>6. OrderInv
  BY <1>4, NobodyAmongNone DEF OrderInv, Rising
<1>7. GroupInv
  BY <1>4, NobodyAmongNone DEF GroupInv
<1>. QED
  BY <1>3, <1>4, <1>5, <1>6, <1>7
  DEF SeInv, Se!DllConflictsExact, Se!LibConflictsExact

\* What does not change before the first detection ends.
LEMMA StillGrouping ==
  ASSUME SeInv, find.at \in {"query", "group"}, find'.at = "group", SeTypes',
         find'.byType = find.byType, UNCHANGED <<Se!table, dllConflicts, libConflicts>>,
         OrderInv', GroupInv'
  PROVE  SeInv'
<1>1. LibsInv'
  BY DEF SeInv, LibsInv, Se!table
<1>2. Se!DllConflictsExact' /\ Se!LibConflictsExact'
  BY DEF Se!DllConflictsExact, Se!LibConflictsExact
<1>. QED
  BY <1>1, <1>2 DEF SeInv

LEMMA QueryKeeps ==
  ASSUME SeInv, Se!Query
  PROVE  SeInv'
<1>1. /\ SeTypes /\ OrderInv /\ GroupInv /\ find.at = "query"
      /\ find' = [find EXCEPT !.at = "group", !.rows = Se!Rows]
      /\ UNCHANGED <<Se!table, dllConflicts, libConflicts>>
  BY DEF Se!Query, SeInv
<1>2. /\ find'.at = "group" /\ find'.rows = Se!Rows /\ find'.slugs = find.slugs
      /\ find'.paths = find.paths /\ find'.byPath = find.byPath
      /\ find'.byType = find.byType
  BY <1>1 DEF SeTypes
<1>3. Se!Rows' = Se!Rows
  BY <1>1 DEF Se!Rows, Se!table
<1>4. SeTypes'
  BY <1>1, <1>3 DEF SeTypes, Se!table
<1>5. find.slugs = <<>> /\ \A d \in Dirs : find.byPath[d] = <<>>
  BY <1>1 DEF GroupInv
<1>6. OrderInv'
  BY <1>2, <1>5, NobodyAmongNone DEF OrderInv, Rising
<1>7. GroupInv'
  BY <1>1, <1>2, <1>3, <1>5, NobodyAmongNone DEF GroupInv, Se!table
<1>. QED
  BY <1>1, <1>2, <1>4, <1>6, <1>7, StillGrouping

LEMMA GroupKeeps ==
  ASSUME SeInv, Se!Group
  PROVE  SeInv'
<1>1. /\ SeTypes /\ OrderInv /\ GroupInv /\ find.at = "group" /\ find.rows # {}
      /\ UNCHANGED <<Se!table, dllConflicts, libConflicts>>
  BY DEF Se!Group, SeInv
<1>2. PICK r : r = Se!FirstRow(find.rows)
  OBVIOUS
<1>3. PICK m : m = ModOrder[r[1]]
  OBVIOUS
<1>4. PICK d : d = DllFiles[r[2]]
  OBVIOUS
<1>5. /\ find.rows \in SUBSET Se!Rows /\ r \in find.rows /\ r \in Se!Rows
      /\ \A s \in find.rows : r[1] <= s[1]
  <2>1. find.rows \in SUBSET Se!Rows
    BY <1>1 DEF SeTypes
  <2>. QED
    BY <1>1, <1>2, <2>1, FirstRowIs
<1>6. /\ r[1] \in Nat /\ m \in Se!Ms /\ Se!Place(m) = r[1] /\ d \in Dirs
      /\ m \in enabled /\ d \in ships[m]
  BY <1>3, <1>4, <1>5, RowIs
<1>7. find' = IF d \notin SePlugins THEN [find EXCEPT !.rows = @ \ {r}]
              ELSE [find EXCEPT !.rows = @ \ {r}, !.paths[m] = @ \cup {d},
                      !.slugs = IF find.paths[m] = {} THEN Append(@, m) ELSE @]
  BY <1>2, <1>3, <1>4 DEF Se!Group
<1>8. /\ find'.at = "group" /\ find'.rows = find.rows \ {r}
      /\ find'.byPath = find.byPath /\ find'.byType = find.byType
      /\ d \notin SePlugins => find'.slugs = find.slugs /\ find'.paths = find.paths
      /\ d \in SePlugins =>
           /\ find'.paths = [find.paths EXCEPT ![m] = @ \cup {d}]
           /\ find.paths[m] = {} => find'.slugs = Append(find.slugs, m)
           /\ find.paths[m] # {} => find'.slugs = find.slugs
  BY <1>1, <1>7 DEF SeTypes
<1>9. \A k \in Se!Ms : find'.paths[k] =
        IF d \in SePlugins /\ k = m THEN find.paths[k] \cup {d} ELSE find.paths[k]
  BY <1>1, <1>6, <1>8 DEF SeTypes
<1>10. Se!Rows' = Se!Rows
  BY <1>1 DEF Se!Rows, Se!table
<1>11. find.slugs \in Seq(Se!Ms)
  BY <1>1 DEF SeTypes
<1>12. \A e \in Dirs : find.byPath[e] = <<>>
  BY <1>1 DEF GroupInv
<1>13. /\ find'.slugs \in Seq(Se!Ms)
       /\ \A k \in Se!Ms : Among(k, find'.slugs)
                             <=> Among(k, find.slugs) \/ (d \in SePlugins /\ k = m)
       /\ Rising(find'.slugs)
  <2>1. CASE d \in SePlugins /\ find.paths[m] = {}
    <3>1. PICK z : z = Append(find.slugs, m)
      OBVIOUS
    <3>2. \A k \in Se!Ms : Among(k, find.slugs) => Se!Place(k) < Se!Place(m)
      <4>1. SUFFICES ASSUME NEW k \in Se!Ms, Among(k, find.slugs)
                     PROVE  Se!Place(k) < Se!Place(m)
        OBVIOUS
      <4>2. Se!Place(k) <= r[1]
        BY <1>1, <1>5, <4>1 DEF OrderInv
      <4>3. k # m
        BY <1>1, <2>1, <4>1 DEF GroupInv
      <4>4. Se!Place(k) # Se!Place(m)
        BY <1>6, <4>3, PlacesAre
      <4>. QED
        BY <1>6, <4>2, <4>4, PlacesAre
    <3>3. Rising(find.slugs)
      BY <1>1 DEF OrderInv
    <3>4. /\ z \in Seq(Se!Ms) /\ Rising(z)
          /\ \A k \in Se!Ms : Among(k, z) <=> Among(k, find.slugs) \/ k = m
      <4>1. PICK s : s = find.slugs
        OBVIOUS
      <4>2. s \in Seq(Se!Ms) /\ m \in Se!Ms /\ Rising(s) /\ Extends(z, s, m)
            /\ \A k \in Se!Ms : Among(k, s) => Se!Place(k) < Se!Place(m)
        BY <1>6, <1>11, <3>1, <3>2, <3>3, <4>1 DEF Extends
      <4>3. /\ z \in Seq(Se!Ms) /\ Rising(z)
            /\ \A k \in Se!Ms : Among(k, z) <=> Among(k, s) \/ k = m
        BY <4>2, AtTheEnd
      <4>. QED
        BY <4>1, <4>3
    <3>5. find'.slugs = z
      BY <1>8, <2>1, <3>1
    <3>. QED
      BY <2>1, <3>4, <3>5
  <2>2. CASE d \in SePlugins /\ find.paths[m] # {}
    <3>1. PICK e \in find.paths[m] : TRUE
      BY <2>2
    <3>2. e \in Dirs
      BY <1>1, <1>6, <3>1 DEF SeTypes
    <3>3. Among(m, find.slugs)
      BY <1>1, <1>6, <1>12, <3>1, <3>2, NobodyAmongNone DEF GroupInv
    <3>. QED
      BY <1>1, <1>8, <1>11, <2>2, <3>3 DEF OrderInv
  <2>3. CASE d \notin SePlugins
    BY <1>1, <1>8, <1>11, <2>3 DEF OrderInv
  <2>. QED
    BY <2>1, <2>2, <2>3
<1>14. SeTypes'
  <2>1. /\ find'.at \in {"query", "group", "libs", "done"}
        /\ find'.rows \in SUBSET Se!Rows
        /\ find'.paths \in [Se!Ms -> SUBSET Dirs]
        /\ find'.byPath \in [Dirs -> Seq(Se!Ms)]
        /\ find'.byType \in [Se!LibTypes -> SUBSET (Se!Ms \X Releases)]
    <3>1. /\ find.rows \in SUBSET Se!Rows /\ find.paths \in [Se!Ms -> SUBSET Dirs]
          /\ find.byPath \in [Dirs -> Seq(Se!Ms)]
          /\ find.byType \in [Se!LibTypes -> SUBSET (Se!Ms \X Releases)]
      BY <1>1 DEF SeTypes
    <3>2. find'.rows \in SUBSET Se!Rows
      BY <1>8, <3>1
    <3>3. find'.paths \in [Se!Ms -> SUBSET Dirs]
      <4>1. PICK p \in [Se!Ms -> SUBSET Dirs] : p = find.paths
        BY <3>1
      <4>2. [p EXCEPT ![m] = @ \cup {d}] \in [Se!Ms -> SUBSET Dirs]
        BY <1>6, <4>1
      <4>. QED
        BY <1>8, <4>1, <4>2
    <3>. QED
      BY <1>8, <3>1, <3>2, <3>3
  <2>2. find' = [at |-> find'.at, rows |-> find'.rows, slugs |-> find'.slugs,
                 paths |-> find'.paths, byPath |-> find'.byPath, byType |-> find'.byType]
    BY <1>1, <1>7 DEF SeTypes
  <2>. QED
    BY <1>1, <1>10, <1>13, <2>1, <2>2 DEF SeTypes, Se!table
<1>15. OrderInv'
  <2>1. \A s \in find'.rows, k \in Se!Ms : Among(k, find'.slugs) => Se!Place(k) <= s[1]
    <3>1. SUFFICES ASSUME NEW s \in find.rows, NEW k \in Se!Ms, Among(k, find'.slugs)
                   PROVE  Se!Place(k) <= s[1]
      BY <1>8
    <3>2. CASE Among(k, find.slugs)
      BY <1>1, <3>1, <3>2 DEF OrderInv
    <3>3. CASE k = m
      BY <1>5, <1>6, <3>1, <3>3
    <3>. QED
      BY <1>13, <3>1, <3>2, <3>3
  <2>. QED
    BY <1>8, <1>12, <1>13, <2>1, NobodyAmongNone DEF OrderInv, Rising
<1>16. GroupInv'
  <2>1. \A k \in Se!Ms : Among(k, find'.slugs) => find'.paths[k] # {}
    BY <1>1, <1>9, <1>13 DEF GroupInv
  <2>2. \A k \in Se!Ms : \A e \in find'.paths[k] :
          e \in SePlugins /\ k \in enabled /\ e \in ships[k] /\ Among(k, find'.slugs)
    <3>1. SUFFICES ASSUME NEW k \in Se!Ms, NEW e \in find'.paths[k]
                   PROVE  /\ e \in SePlugins /\ k \in enabled /\ e \in ships[k]
                          /\ Among(k, find'.slugs)
      OBVIOUS
    <3>2. CASE e \in find.paths[k]
      <4>1. e \in Dirs
        BY <1>1, <3>1, <3>2 DEF SeTypes
      <4>. QED
        BY <1>1, <1>12, <1>13, <3>2, <4>1, NobodyAmongNone DEF GroupInv
    <3>3. CASE e \notin find.paths[k]
      <4>1. d \in SePlugins /\ k = m /\ e = d
        BY <1>9, <3>1, <3>3
      <4>. QED
        BY <1>6, <1>13, <4>1
    <3>. QED
      BY <3>2, <3>3
  <2>3. \A s \in Se!Rows \ find'.rows :
          DllFiles[s[2]] \in SePlugins => DllFiles[s[2]] \in find'.paths[ModOrder[s[1]]]
    <3>1. SUFFICES ASSUME NEW s \in Se!Rows \ find'.rows, DllFiles[s[2]] \in SePlugins
                   PROVE  DllFiles[s[2]] \in find'.paths[ModOrder[s[1]]]
      OBVIOUS
    <3>2. ModOrder[s[1]] \in Se!Ms
      BY <3>1, RowIs
    <3>3. CASE s \in Se!Rows \ find.rows
      BY <1>1, <1>9, <3>1, <3>2, <3>3 DEF GroupInv
    <3>4. CASE s = r
      BY <1>3, <1>4, <1>9, <3>1, <3>2, <3>4
    <3>. QED
      BY <1>8, <3>1, <3>3, <3>4
  <2>4. UNCHANGED <<enabled, ships>>
    BY <1>1 DEF Se!table
  <2>. QED
    BY <1>8, <1>10, <1>12, <2>1, <2>2, <2>3, <2>4, NobodyAmongNone DEF GroupInv
<1>. QED
  BY <1>1, <1>8, <1>14, <1>15, <1>16, StillGrouping

LEMMA PathsOfModKeeps ==
  ASSUME SeInv, Se!PathsOfMod
  PROVE  SeInv'
<1>1. /\ SeTypes /\ OrderInv /\ GroupInv /\ find.at = "group" /\ find.rows = {}
      /\ find.slugs # <<>>
      /\ UNCHANGED <<Se!table, dllConflicts, libConflicts>>
  BY DEF Se!PathsOfMod, SeInv
<1>2. PICK m : m = Head(find.slugs)
  OBVIOUS
<1>3. PICK z : z = Tail(find.slugs)
  OBVIOUS
<1>4. find' = [find EXCEPT !.slugs = z,
                 !.byPath = [d \in DOMAIN @ |-> IF d \in find.paths[m]
                                                THEN Append(@[d], m) ELSE @[d]]]
  BY <1>2, <1>3 DEF Se!PathsOfMod
<1>5. /\ find'.at = "group" /\ find'.rows = {} /\ find'.slugs = z
      /\ find'.paths = find.paths /\ find'.byType = find.byType
      /\ find'.byPath = [d \in Dirs |-> IF d \in find.paths[m]
                                        THEN Append(find.byPath[d], m) ELSE find.byPath[d]]
  BY <1>1, <1>4 DEF SeTypes
<1>6. Se!Rows' = Se!Rows
  BY <1>1 DEF Se!Rows, Se!table
<1>7. /\ find.slugs \in Seq(Se!Ms) /\ Rising(find.slugs)
      /\ \A d \in Dirs : find.byPath[d] \in Seq(Se!Ms)
  BY <1>1 DEF SeTypes, OrderInv
<1>8. /\ m \in Se!Ms /\ z \in Seq(Se!Ms) /\ Rising(z)
      /\ \A k \in Se!Ms : Among(k, find.slugs) <=> Among(k, z) \/ k = m
      /\ \A k \in Se!Ms : Among(k, z) => Se!Place(m) < Se!Place(k)
  BY <1>1, <1>2, <1>3, <1>7, FirstAndOthers
<1>9. \A d \in Dirs :
        /\ find'.byPath[d] \in Seq(Se!Ms) /\ Rising(find'.byPath[d])
        /\ \A k \in Se!Ms : Among(k, find'.byPath[d])
             <=> Among(k, find.byPath[d]) \/ (d \in find.paths[m] /\ k = m)
  <2>1. TAKE d \in Dirs
  <2>2. CASE d \in find.paths[m]
    <3>1. PICK b : b = Append(find.byPath[d], m)
      OBVIOUS
    <3>2. \A k \in Se!Ms : Among(k, find.byPath[d]) => Se!Place(k) < Se!Place(m)
      BY <1>1, <1>8 DEF OrderInv
    <3>3. Rising(find.byPath[d])
      BY <1>1 DEF OrderInv
    <3>4. /\ b \in Seq(Se!Ms) /\ Rising(b)
          /\ \A k \in Se!Ms : Among(k, b) <=> Among(k, find.byPath[d]) \/ k = m
      <4>1. PICK s : s = find.byPath[d]
        OBVIOUS
      <4>2. s \in Seq(Se!Ms) /\ m \in Se!Ms /\ Rising(s) /\ Extends(b, s, m)
            /\ \A k \in Se!Ms : Among(k, s) => Se!Place(k) < Se!Place(m)
        BY <1>7, <1>8, <3>1, <3>2, <3>3, <4>1 DEF Extends
      <4>3. /\ b \in Seq(Se!Ms) /\ Rising(b)
            /\ \A k \in Se!Ms : Among(k, b) <=> Among(k, s) \/ k = m
        BY <4>2, AtTheEnd
      <4>. QED
        BY <4>1, <4>3
    <3>5. find'.byPath[d] = b
      BY <1>5, <2>2, <3>1
    <3>. QED
      BY <2>2, <3>4, <3>5
  <2>3. CASE d \notin find.paths[m]
    BY <1>1, <1>5, <1>7, <2>3 DEF OrderInv
  <2>. QED
    BY <2>2, <2>3
<1>10. SeTypes'
  <2>1. find' = [at |-> find'.at, rows |-> find'.rows, slugs |-> find'.slugs,
                 paths |-> find'.paths, byPath |-> find'.byPath, byType |-> find'.byType]
    BY <1>1, <1>4 DEF SeTypes
  <2>2. find'.byPath \in [Dirs -> Seq(Se!Ms)]
    BY <1>5, <1>9
  <2>3. /\ find'.paths \in [Se!Ms -> SUBSET Dirs] /\ find'.rows \in SUBSET Se!Rows
        /\ find'.byType \in [Se!LibTypes -> SUBSET (Se!Ms \X Releases)]
        /\ find'.slugs \in Seq(Se!Ms)
    BY <1>1, <1>5, <1>8 DEF SeTypes
  <2>. QED
    BY <1>1, <1>5, <1>6, <2>1, <2>2, <2>3 DEF SeTypes, Se!table
<1>11. OrderInv'
  <2>1. \A d \in Dirs : \A k, l \in Se!Ms : Among(k, find'.byPath[d]) /\ Among(l, z) =>
          Se!Place(k) < Se!Place(l)
    <3>1. SUFFICES ASSUME NEW d \in Dirs, NEW k \in Se!Ms, NEW l \in Se!Ms,
                          Among(k, find'.byPath[d]), Among(l, z)
                   PROVE  Se!Place(k) < Se!Place(l)
      OBVIOUS
    <3>2. CASE Among(k, find.byPath[d])
      BY <1>1, <1>8, <3>1, <3>2 DEF OrderInv
    <3>3. CASE k = m
      BY <1>8, <3>1, <3>3
    <3>. QED
      BY <1>9, <3>1, <3>2, <3>3
  <2>. QED
    BY <1>5, <1>8, <1>9, <2>1 DEF OrderInv
<1>12. GroupInv'
  <2>1. \A k \in Se!Ms : Among(k, find'.slugs) => find'.paths[k] # {}
    BY <1>1, <1>5, <1>8 DEF GroupInv
  <2>2. \A k \in Se!Ms, d \in Dirs : Among(k, find'.byPath[d]) => d \in find'.paths[k]
    BY <1>1, <1>5, <1>9 DEF GroupInv
  <2>3. \A k \in Se!Ms : \A d \in find'.paths[k] :
          /\ d \in SePlugins /\ k \in enabled /\ d \in ships[k]
          /\ Among(k, find'.slugs) \/ Among(k, find'.byPath[d])
    <3>1. SUFFICES ASSUME NEW k \in Se!Ms, NEW d \in find.paths[k]
                   PROVE  /\ d \in SePlugins /\ k \in enabled /\ d \in ships[k]
                          /\ Among(k, z) \/ Among(k, find'.byPath[d])
      BY <1>5
    <3>2. d \in Dirs
      BY <1>1, <3>1 DEF SeTypes
    <3>3. /\ d \in SePlugins /\ k \in enabled /\ d \in ships[k]
          /\ Among(k, find.slugs) \/ Among(k, find.byPath[d])
      BY <1>1, <3>1 DEF GroupInv
    <3>. QED
      BY <1>8, <1>9, <3>1, <3>2, <3>3
  <2>4. \A s \in Se!Rows \ find'.rows :
          DllFiles[s[2]] \in SePlugins => DllFiles[s[2]] \in find'.paths[ModOrder[s[1]]]
    BY <1>1, <1>5 DEF GroupInv
  <2>5. UNCHANGED <<enabled, ships>>
    BY <1>1 DEF Se!table
  <2>. QED
    BY <1>5, <1>6, <2>1, <2>2, <2>3, <2>4, <2>5 DEF GroupInv
<1>. QED
  BY <1>1, <1>5, <1>10, <1>11, <1>12, StillGrouping

\* Two members of a list in order are at two places of it.
LEMMA SeveralIs ==
  ASSUME NEW s \in Seq(Se!Ms), Rising(s), NEW S, S = Se!Range(s)
  PROVE  /\ Len(s) > 1 <=> Se!Several(S)
         /\ \A m : m \in S <=> Among(m, s)
<1>1. PICK n \in Nat : n = Len(s)
  OBVIOUS
<1>2. DOMAIN s = 1 .. n /\ \A i \in 1 .. n : s[i] \in Se!Ms
  BY <1>1
<1>3. S = {s[i] : i \in 1 .. n}
  BY <1>2 DEF Se!Range
<1>4. ASSUME n > 1 PROVE Se!Several(S)
  <2>1. 1 \in 1 .. n /\ 2 \in 1 .. n /\ 1 < 2
    BY <1>4
  <2>2. Se!Place(s[1]) < Se!Place(s[2])
    BY <1>2, <2>1 DEF Rising
  <2>3. s[1] \in Se!Ms /\ s[1] \in S /\ s[2] \in S
    BY <1>2, <1>3, <2>1
  <2>4. s[1] # s[2]
    BY <2>2, <2>3, PlacesAre
  <2>. QED
    BY <2>3, <2>4 DEF Se!Several
<1>5. ASSUME Se!Several(S) PROVE n > 1
  <2>1. PICK i, j \in 1 .. n : s[i] # s[j]
    BY <1>3, <1>5 DEF Se!Several
  <2>2. i # j
    BY <2>1
  <2>. QED
    BY <2>2
<1>. QED
  BY <1>1, <1>2, <1>3, <1>4, <1>5 DEF Among

LEMMA DllsDoneKeeps ==
  ASSUME SeInv, Se!DllsDone
  PROVE  SeInv'
<1>1. /\ SeTypes /\ LibsInv /\ OrderInv /\ GroupInv
      /\ find.at = "group" /\ find.rows = {} /\ find.slugs = <<>>
      /\ find' = [find EXCEPT !.at = "libs", !.slugs = ModOrder]
      /\ dllConflicts' = {[path |-> d, mods |-> find.byPath[d]] :
                            d \in {e \in DOMAIN find.byPath : Len(find.byPath[e]) > 1}}
      /\ UNCHANGED <<Se!table, libConflicts>>
  BY DEF Se!DllsDone, SeInv
<1>2. /\ find'.at = "libs" /\ find'.slugs = ModOrder /\ find'.byType = find.byType
      /\ DOMAIN find.byPath = Dirs /\ \A d \in Dirs : find.byPath[d] \in Seq(Se!Ms)
  BY <1>1 DEF SeTypes
<1>3. Se!Rows' = Se!Rows
  BY <1>1 DEF Se!Rows, Se!table
<1>4. ModOrder \in Seq(Se!Ms) /\ \A m \in Se!Ms : Among(m, ModOrder)
  <2>1. Se!Ms = {ModOrder[i] : i \in DOMAIN ModOrder}
    BY PlacesAre
  <2>. QED
    BY <2>1, PlacesAreOnce DEF Among
<1>5. SeTypes'
  BY <1>1, <1>3, <1>4 DEF SeTypes, Se!table
<1>6. LibsInv'
  BY <1>1, <1>2, <1>4 DEF LibsInv, Se!table
<1>7. \A d \in Dirs : \A m \in Se!Ms : Among(m, find.byPath[d]) <=>
        d \in SePlugins /\ m \in enabled /\ d \in ships[m]
  <2>1. SUFFICES ASSUME NEW d \in Dirs, NEW m \in Se!Ms
                 PROVE  Among(m, find.byPath[d]) <=>
                          d \in SePlugins /\ m \in enabled /\ d \in ships[m]
    OBVIOUS
  <2>2. ASSUME Among(m, find.byPath[d])
        PROVE  d \in SePlugins /\ m \in enabled /\ d \in ships[m]
    BY <1>1, <2>2 DEF GroupInv
  <2>3. ASSUME d \in SePlugins, m \in enabled, d \in ships[m]
        PROVE  Among(m, find.byPath[d])
    <3>1. PICK i \in DOMAIN ModOrder : m = ModOrder[i]
      BY PlacesAre
    <3>2. PICK j \in DOMAIN DllFiles : d = DllFiles[j]
      BY DEF Dirs, Se!Range
    <3>3. PICK r : r = <<i, j>>
      OBVIOUS
    <3>4. r \in Se!Rows /\ r[1] = i /\ r[2] = j
      BY <2>3, <3>1, <3>2, <3>3 DEF Se!Rows
    <3>5. d \in find.paths[m]
      BY <1>1, <2>3, <3>1, <3>2, <3>4 DEF GroupInv
    <3>. QED
      BY <1>1, <3>5, NobodyAmongNone DEF GroupInv
  <2>. QED
    BY <2>2, <2>3
<1>8. \A d \in Dirs :
        /\ Len(find.byPath[d]) > 1 <=> d \in SePlugins /\ Se!Several(Se!Rivals(d))
        /\ Len(find.byPath[d]) > 1 => Se!Range(find.byPath[d]) = Se!Rivals(d)
        /\ Rising(find.byPath[d])
  <2>1. TAKE d \in Dirs
  <2>2. PICK s \in Seq(Se!Ms) : s = find.byPath[d]
    BY <1>2
  <2>3. PICK S : S = Se!Range(s)
    OBVIOUS
  <2>4. Rising(s)
    BY <1>1, <2>2 DEF OrderInv
  <2>5. /\ Len(s) > 1 <=> Se!Several(S)
        /\ \A m : m \in S <=> Among(m, s)
    BY <2>3, <2>4, SeveralIs
  <2>6. \A m : Among(m, s) => m \in Se!Ms
    BY <2>2 DEF Among
  <2>7. \A m : m \in S <=> m \in Se!Ms /\ d \in SePlugins /\ m \in enabled /\ d \in ships[m]
    BY <1>7, <2>2, <2>5, <2>6
  <2>8. enabled \in SUBSET Se!Ms
    BY <1>1 DEF SeTypes
  <2>9. CASE d \in SePlugins
    <3>1. S = Se!Rivals(d)
      BY <2>7, <2>8, <2>9 DEF Se!Rivals
    <3>. QED
      BY <2>2, <2>3, <2>4, <2>5, <2>9, <3>1
  <2>10. CASE d \notin SePlugins
    <3>1. ~ Se!Several(S)
      BY <2>7, <2>10 DEF Se!Several
    <3>. QED
      BY <2>2, <2>4, <2>5, <2>10, <3>1
  <2>. QED
    BY <2>9, <2>10
<1>9. \A d : Se!Several(Se!Rivals(d)) => d \in Dirs
  BY <1>1 DEF SeTypes, Se!Several, Se!Rivals
<1>10. \A d : Se!Rivals(d)' = Se!Rivals(d)
  BY <1>1 DEF Se!Rivals, Se!table
<1>11. Se!DllConflictsExact'
  <2>1. {c.path : c \in dllConflicts'} = {d \in SePlugins : Se!Several(Se!Rivals(d))}
    <3>1. \A c \in dllConflicts' : c.path \in SePlugins /\ Se!Several(Se!Rivals(c.path))
      BY <1>1, <1>2, <1>8
    <3>2. \A d \in SePlugins : Se!Several(Se!Rivals(d)) => \E c \in dllConflicts' : c.path = d
      <4>1. SUFFICES ASSUME NEW d \in SePlugins, Se!Several(Se!Rivals(d))
                     PROVE  \E c \in dllConflicts' : c.path = d
        OBVIOUS
      <4>2. d \in DOMAIN find.byPath /\ Len(find.byPath[d]) > 1
        BY <1>2, <1>8, <1>9, <4>1
      <4>3. PICK c : c = [path |-> d, mods |-> find.byPath[d]]
        OBVIOUS
      <4>4. c \in dllConflicts' /\ c.path = d
        BY <1>1, <4>2, <4>3
      <4>. QED
        BY <4>4
    <3>. QED
      BY <3>1, <3>2
  <2>2. \A c \in dllConflicts' :
          /\ Se!Range(c.mods) = Se!Rivals(c.path)
          /\ \A i, j \in DOMAIN c.mods : i < j => Se!Place(c.mods[i]) < Se!Place(c.mods[j])
    <3>1. TAKE c \in dllConflicts'
    <3>2. PICK d \in Dirs : /\ Len(find.byPath[d]) > 1
                            /\ c = [path |-> d, mods |-> find.byPath[d]]
      BY <1>1, <1>2
    <3>3. c.path = d /\ c.mods = find.byPath[d]
      BY <3>2
    <3>. QED
      BY <1>8, <3>2, <3>3 DEF Rising
  <2>3. \A d : Se!Several(Se!Rivals(d)') <=> Se!Several(Se!Rivals(d))
    BY <1>10
  <2>. QED
    BY <1>10, <2>1, <2>2, <2>3 DEF Se!DllConflictsExact, Se!Several
<1>12. Se!LibConflictsExact'
  BY <1>2 DEF Se!LibConflictsExact
<1>. QED
  BY <1>2, <1>5, <1>6, <1>11, <1>12 DEF SeInv

\* The first detection is over: what it has found stays.
LEMMA DllsStay ==
  ASSUME SeInv, find.at \in {"libs", "done"}, find'.at \in {"libs", "done"},
         UNCHANGED <<enabled, ships, dllConflicts>>
  PROVE  Se!DllConflictsExact'
<1>1. Se!DllConflictsExact
  BY DEF SeInv
<1>. QED
  BY <1>1 DEF Se!DllConflictsExact, Se!Rivals

LEMMA LibsOfModKeeps ==
  ASSUME SeInv, Se!LibsOfMod
  PROVE  SeInv'
<1>1. /\ SeTypes /\ LibsInv /\ find.at = "libs" /\ find.slugs # <<>>
      /\ UNCHANGED <<Se!table, dllConflicts, libConflicts>>
  BY DEF Se!LibsOfMod, SeInv
<1>2. PICK m : m = Head(find.slugs)
  OBVIOUS
<1>3. PICK z : z = Tail(find.slugs)
  OBVIOUS
<1>4. find' = [find EXCEPT !.slugs = z,
                 !.byType = [t \in Se!LibTypes |-> @[t] \cup
                   {<<m, l.version>> : l \in {k \in brings[m] : k.type = t}}]]
  BY <1>2, <1>3 DEF Se!LibsOfMod
<1>5. /\ find'.at = "libs" /\ find'.slugs = z
      /\ find'.byType = [t \in Se!LibTypes |-> find.byType[t] \cup
           {<<m, l.version>> : l \in {k \in brings[m] : k.type = t}}]
  BY <1>1, <1>4 DEF SeTypes
<1>6. Se!Rows' = Se!Rows
  BY <1>1 DEF Se!Rows, Se!table
<1>7. /\ m \in Se!Ms /\ z \in Seq(Se!Ms)
      /\ \A k \in Se!Ms : Among(k, find.slugs) <=> Among(k, z) \/ k = m
  <2>1. find.slugs \in Seq(Se!Ms)
    BY <1>1 DEF SeTypes
  <2>. QED
    BY <1>1, <1>2, <1>3, <2>1, FirstAndOthers
<1>8. find'.byType \in [Se!LibTypes -> SUBSET (Se!Ms \X Releases)]
  <2>1. \A t \in Se!LibTypes : find.byType[t] \in SUBSET (Se!Ms \X Releases)
    BY <1>1 DEF SeTypes
  <2>2. \A l \in brings[m] : l.version \in Releases
    BY <1>1, <1>7 DEF SeTypes, Releases
  <2>3. \A t \in Se!LibTypes : find'.byType[t] \in SUBSET (Se!Ms \X Releases)
    BY <1>5, <1>7, <2>1, <2>2
  <2>. QED
    BY <1>5, <2>3
<1>9. SeTypes'
  <2>1. find' = [at |-> find'.at, rows |-> find'.rows, slugs |-> find'.slugs,
                 paths |-> find'.paths, byPath |-> find'.byPath, byType |-> find'.byType]
    BY <1>1, <1>4 DEF SeTypes
  <2>2. /\ find'.paths \in [Se!Ms -> SUBSET Dirs] /\ find'.rows \in SUBSET Se!Rows
        /\ find'.byPath \in [Dirs -> Seq(Se!Ms)]
    BY <1>1, <1>4 DEF SeTypes
  <2>. QED
    BY <1>1, <1>5, <1>6, <1>7, <1>8, <2>1, <2>2 DEF SeTypes, Se!table
<1>10. LibsInv'
  <2>1. \A t \in Se!LibTypes, k \in Se!Ms, v \in Releases :
          <<k, v>> \in find'.byType[t] => \E l \in brings[k] : l.type = t /\ l.version = v
    <3>1. SUFFICES ASSUME NEW t \in Se!LibTypes, NEW k \in Se!Ms, NEW v \in Releases,
                          <<k, v>> \in find'.byType[t]
                   PROVE  \E l \in brings[k] : l.type = t /\ l.version = v
      OBVIOUS
    <3>2. CASE <<k, v>> \in find.byType[t]
      BY <1>1, <3>2 DEF LibsInv
    <3>3. CASE \E l \in brings[m] : l.type = t /\ <<k, v>> = <<m, l.version>>
      BY <3>3
    <3>. QED
      BY <1>5, <3>1, <3>2, <3>3
  <2>2. \A t \in Se!LibTypes, k \in Se!Ms : \A l \in brings[k] :
          l.type = t => <<k, l.version>> \in find'.byType[t] \/ Among(k, z)
    <3>1. SUFFICES ASSUME NEW t \in Se!LibTypes, NEW k \in Se!Ms, NEW l \in brings[k],
                          l.type = t, ~ Among(k, z)
                   PROVE  <<k, l.version>> \in find'.byType[t]
      OBVIOUS
    <3>2. <<k, l.version>> \in find.byType[t] \/ k = m
      BY <1>1, <1>7, <3>1 DEF LibsInv
    <3>. QED
      BY <1>5, <3>1, <3>2
  <2>. QED
    BY <1>1, <1>5, <2>1, <2>2 DEF LibsInv, Se!table
<1>11. Se!DllConflictsExact'
  BY <1>1, <1>5, DllsStay DEF Se!table
<1>12. Se!LibConflictsExact'
  BY <1>5 DEF Se!LibConflictsExact
<1>. QED
  BY <1>5, <1>9, <1>10, <1>11, <1>12 DEF SeInv

LEMMA LibsDoneKeeps ==
  ASSUME SeInv, Se!LibsDone
  PROVE  SeInv'
<1>1. /\ SeTypes /\ LibsInv /\ find.at = "libs" /\ find.slugs = <<>>
      /\ find' = [find EXCEPT !.at = "done"]
      /\ libConflicts' = {[type |-> t, kind |-> Se!LibKind(t), mods |-> find.byType[t]] :
                            t \in {u \in Se!LibTypes : Se!LibKind(u) # "none"}}
      /\ UNCHANGED <<Se!table, dllConflicts>>
  BY DEF Se!LibsDone, SeInv
<1>2. find'.at = "done" /\ find'.byType = find.byType
  BY <1>1 DEF SeTypes
<1>3. Se!Rows' = Se!Rows
  BY <1>1 DEF Se!Rows, Se!table
<1>4. SeTypes'
  BY <1>1, <1>3 DEF SeTypes, Se!table
<1>5. \A t \in Se!LibTypes, m \in Se!Ms : \A l \in brings[m] :
        l.type = t => <<m, l.version>> \in find.byType[t]
  BY <1>1, NobodyAmongNone DEF LibsInv
<1>6. LibsInv'
  BY <1>1, <1>2, <1>5 DEF LibsInv, Se!table
<1>7. Se!DllConflictsExact'
  BY <1>1, <1>2, DllsStay DEF Se!table
<1>8. \A t \in Se!LibTypes : \A s \in find.byType[t] :
        /\ s[1] \in Se!Ms
        /\ \E l \in brings[s[1]] : l.type = t /\ l.version = s[2]
  <2>1. TAKE t \in Se!LibTypes
  <2>2. TAKE s \in find.byType[t]
  <2>3. PICK m \in Se!Ms, v \in Releases : s = <<m, v>>
    BY <1>1 DEF SeTypes
  <2>. QED
    BY <1>1, <2>3 DEF LibsInv
<1>9. \A t \in Se!LibTypes : {s[1] : s \in find.byType[t]} = Se!Bringers(t)
  <2>1. TAKE t \in Se!LibTypes
  <2>2. \A m \in Se!Bringers(t) : \E s \in find.byType[t] : s[1] = m
    <3>1. TAKE m \in Se!Bringers(t)
    <3>2. m \in Se!Ms /\ \E l \in brings[m] : l.type = t
      BY DEF Se!Bringers
    <3>3. PICK l \in brings[m] : l.type = t
      BY <3>2
    <3>4. <<m, l.version>> \in find.byType[t]
      BY <1>5, <3>2, <3>3
    <3>. QED
      BY <3>4
  <2>3. \A s \in find.byType[t] : s[1] \in Se!Bringers(t)
    BY <1>8 DEF Se!Bringers
  <2>. QED
    BY <2>2, <2>3
<1>10. \A t \in Se!LibTypes : \A v :
         v \in Se!VersionsOf(t) <=> \E m \in Se!Ms : \E l \in brings[m] :
                                       l.type = t /\ l.version = v
  <2>1. TAKE t \in Se!LibTypes
  <2>2. TAKE v
  <2>3. ASSUME v \in Se!VersionsOf(t)
        PROVE  \E m \in Se!Ms : \E l \in brings[m] : l.type = t /\ l.version = v
    BY <1>8, <2>3 DEF Se!VersionsOf
  <2>4. ASSUME NEW m \in Se!Ms, NEW l \in brings[m], l.type = t, l.version = v
        PROVE  v \in Se!VersionsOf(t)
    <3>1. <<m, l.version>> \in find.byType[t]
      BY <1>5, <2>4
    <3>2. PICK s \in find.byType[t] : s = <<m, l.version>>
      BY <3>1
    <3>3. s[2] = v
      BY <2>4, <3>2
    <3>. QED
      BY <3>3 DEF Se!VersionsOf
  <2>. QED
    BY <2>3, <2>4
<1>11. \A t \in Se!LibTypes :
         LET theirs == {l \in UNION {brings[m] : m \in Se!Ms} : l.type = t}
             agree == \A k, l \in theirs : k.version = l.version
             fits == \A l \in theirs : gameIs # None => l.version = gameIs
         IN Se!LibKind(t) = IF ~ agree THEN "mods" ELSE IF ~ fits THEN "game" ELSE "none"
  <2>1. TAKE t \in Se!LibTypes
  <2>2. PICK theirs : theirs = {l \in UNION {brings[m] : m \in Se!Ms} : l.type = t}
    OBVIOUS
  <2>3. PICK V : V = Se!VersionsOf(t)
    OBVIOUS
  <2>4. \A v : v \in V <=> \E l \in theirs : l.version = v
    BY <1>10, <2>2, <2>3
  <2>5. Se!Several(V) <=> ~ \A k, l \in theirs : k.version = l.version
    <3>1. Se!Several(V) <=> \E v, w \in V : v # w
      BY DEF Se!Several
    <3>. QED
      BY <2>4, <3>1
  <2>6. ASSUME \A k, l \in theirs : k.version = l.version
        PROVE  V # {} /\ gameIs # None /\ V # {gameIs}
                 <=> ~ \A l \in theirs : gameIs # None => l.version = gameIs
    BY <2>4, <2>6
  <2>7. Se!LibKind(t) = IF Se!Several(V) THEN "mods"
                        ELSE IF V # {} /\ gameIs # None /\ V # {gameIs} THEN "game"
                        ELSE "none"
    BY <2>3 DEF Se!LibKind
  <2>. QED
    BY <2>2, <2>5, <2>6, <2>7
<1>12. \A t \in Se!LibTypes :
         /\ {c.kind : c \in {b \in libConflicts' : b.type = t}}
              = IF Se!LibKind(t) = "none" THEN {} ELSE {Se!LibKind(t)}
         /\ \A c \in {b \in libConflicts' : b.type = t} : c.mods = find.byType[t]
  <2>1. TAKE t \in Se!LibTypes
  <2>2. PICK k : k = Se!LibKind(t)
    OBVIOUS
  <2>3. \A b \in libConflicts' : b.type = t =>
          k # "none" /\ b.kind = k /\ b.mods = find.byType[t]
    <3>1. SUFFICES ASSUME NEW b \in libConflicts', b.type = t
                   PROVE  k # "none" /\ b.kind = k /\ b.mods = find.byType[t]
      OBVIOUS
    <3>2. PICK u \in Se!LibTypes :
            /\ Se!LibKind(u) # "none"
            /\ b = [type |-> u, kind |-> Se!LibKind(u), mods |-> find.byType[u]]
      BY <1>1
    <3>3. u = t
      BY <3>1, <3>2
    <3>. QED
      BY <2>2, <3>2, <3>3
  <2>4. ASSUME k # "none" PROVE \E b \in libConflicts' : b.type = t
    <3>1. PICK b : b = [type |-> t, kind |-> k, mods |-> find.byType[t]]
      OBVIOUS
    <3>2. b \in libConflicts' /\ b.type = t
      BY <1>1, <2>2, <2>4, <3>1
    <3>. QED
      BY <3>2
  <2>. QED
    BY <2>2, <2>3, <2>4
<1>13. Se!LibConflictsExact'
  <2>1. brings' = brings /\ gameIs' = gameIs
    BY <1>1 DEF Se!table
  <2>2. \A t \in Se!LibTypes : Se!Bringers(t)' = Se!Bringers(t)
    BY <2>1 DEF Se!Bringers
  <2>. QED
    BY <1>9, <1>11, <1>12, <2>1, <2>2 DEF Se!LibConflictsExact
<1>. QED
  BY <1>2, <1>4, <1>6, <1>7, <1>13 DEF SeInv

\* SkseConflicts, for any mods, files and libraries: both detections report exactly what
\* conflicts, with all of the mods that bring it.
THEOREM ConflictsAreExact ==
  SeSpec => [](Se!DllConflictsExact /\ Se!LibConflictsExact)
<1>1. SeInv /\ [Se!SeNext]_(Se!seVars) => SeInv'
  <2>1. CASE SeInv /\ UNCHANGED Se!seVars
    <3>1. UNCHANGED <<enabled, ships, brings, gameIs, find, dllConflicts, libConflicts>>
      BY <2>1 DEF Se!seVars
    <3>2. SeTypes'
      BY <2>1, <3>1 DEF SeInv, SeTypes, Se!Rows
    <3>3. LibsInv'
      BY <2>1, <3>1 DEF SeInv, LibsInv
    <3>4. ASSUME find.at \in {"query", "group"} PROVE OrderInv' /\ GroupInv'
      <4>1. OrderInv'
        BY <2>1, <3>1, <3>4 DEF SeInv, OrderInv
      <4>2. Se!Rows' = Se!Rows
        BY <3>1 DEF Se!Rows
      <4>3. GroupInv'
        BY <2>1, <3>1, <3>4, <4>2 DEF SeInv, GroupInv
      <4>. QED
        BY <4>1, <4>3
    <3>5. find'.at = find.at
      BY <3>1
    <3>6. Se!DllConflictsExact'
      BY <2>1, <3>1 DEF SeInv, Se!DllConflictsExact, Se!Rivals
    <3>7. Se!LibConflictsExact'
      BY <2>1, <3>1 DEF SeInv, Se!LibConflictsExact, Se!Bringers
    <3>. QED
      BY <3>2, <3>3, <3>4, <3>5, <3>6, <3>7 DEF SeInv
  <2>. QED
    BY <2>1, QueryKeeps, GroupKeeps, PathsOfModKeeps, DllsDoneKeeps, LibsOfModKeeps,
       LibsDoneKeeps DEF Se!SeNext
<1>2. SeInv => Se!DllConflictsExact /\ Se!LibConflictsExact
  BY DEF SeInv
<1>. QED
  BY <1>1, <1>2, SeInitially, PTL DEF SeSpec

(***************************************************************************)
(* Library: one part moves by its own steps, the others stay.              *)
(***************************************************************************)

LEMMA PartStays == [Next]_vars => part' = part
BY DEF Next, vars

\* activate_profile, for any profiles and files and however it is cut short: unless
\* teardown_stale has left links or an overlay it could not find, the game directory
\* shows the active profile's mods or none.  Whoever is told of a switch finds all of
\* it done, in every case.
THEOREM SwitchesAreTrue == Spec => []SwitchTrue
<1>1. Init /\ part = "switch" => Switch!SwitchInit
  BY DEF Init
<1>2. [Next]_vars /\ part = "switch" => [Switch!SwitchNext]_(Switch!switchVars)
  BY DEF Next, vars, switchPart, Switch!switchVars
<1>3. [Next]_vars /\ part = "switch" => (part = "switch")'
  BY PartStays
<1>4. [Next]_vars /\ ~ (part = "switch") => ~ (part = "switch")'
  BY PartStays
<1>5. SwitchTrue <=> (part = "switch" => Switch!SwitchTrue)
  BY DEF SwitchTrue
<1>. QED
  BY <1>1, <1>2, <1>3, <1>4, <1>5, SwitchIsTrue, PTL DEF Spec, SwitchSpec

\* load_diagnostics, for any saves, files and categories, and whatever the game does
\* meanwhile: a save is named if it lacked its cosave all the time and is not named if
\* it never did, and every loose file is counted once.
THEOREM DiagnosticsAreTrue == Spec => []ScansTrue
<1>1. Init /\ part = "diag" => Diag!DiagInit
  BY DEF Init
<1>2. [Next]_vars /\ part = "diag" => [Diag!DiagNext]_(Diag!diagVars)
  BY DEF Next, vars, diagPart, Diag!diagVars
<1>3. [Next]_vars /\ part = "diag" => (part = "diag")'
  BY PartStays
<1>4. [Next]_vars /\ ~ (part = "diag") => ~ (part = "diag")'
  BY PartStays
<1>5. ScansTrue <=> (part = "diag" => Diag!ScansTrue)
  BY DEF ScansTrue
<1>. QED
  BY <1>1, <1>2, <1>3, <1>4, <1>5, ScansAreTrue, PTL DEF Spec, DiagSpec

\* native.rs and scripted.rs, for any files, toolchains and versions: only what this
\* toolchain has compiled is called into, and no object outlives its library.
THEOREM LoadersAreSound == Spec => []PluginFilesSound
<1>1. Init /\ part = "files" => PlFiles!FilesInit
  BY DEF Init
<1>2. [Next]_vars /\ part = "files" => [PlFiles!FilesNext]_(PlFiles!fileVars)
  BY DEF Next, vars, filesPart, PlFiles!fileVars
<1>3. [Next]_vars /\ part = "files" => (part = "files")'
  BY PartStays
<1>4. [Next]_vars /\ ~ (part = "files") => ~ (part = "files")'
  BY PartStays
<1>5. PluginFilesSound <=> (part = "files" => PlFiles!PluginFilesSound)
  BY DEF PluginFilesSound
<1>. QED
  BY <1>1, <1>2, <1>3, <1>4, <1>5, PluginFilesAreSound, PTL DEF Spec, FilesSpec

\* select_backend and the kernel mount, for any kernels: one backend for the life of a
\* process, none lower after the machine has gained, no mount half made.
THEOREM BackendsAreSound == Spec => []BackendSound
<1>1. Init /\ part = "backend" => Bk!BackendInit
  BY DEF Init
<1>2. [Next]_vars /\ part = "backend" => [Bk!BackendNext]_(Bk!backendVars)
  BY DEF Next, vars, backendPart, Bk!backendVars
<1>3. [Next]_vars /\ part = "backend" => (part = "backend")'
  BY PartStays
<1>4. [Next]_vars /\ ~ (part = "backend") => ~ (part = "backend")'
  BY PartStays
<1>5. BackendSound <=> (part = "backend" => Bk!BackendSound)
  BY DEF BackendSound
<1>. QED
  BY <1>1, <1>2, <1>3, <1>4, <1>5, BackendIsSound, PTL DEF Spec, BackendSpec

\* detect_all and CACHED_GAME, for any manifests and loaders: all states of a process are
\* about the same game, and it is the first one that is there.
THEOREM OneGameIsTrue == Spec => []OneGame
<1>1. Init /\ part = "game" => Games!DetectInit
  BY DEF Init
<1>2. [Next]_vars /\ part = "game" => [Games!DetectNext]_(Games!detectVars)
  BY DEF Next, vars, gamePart, Games!detectVars
<1>3. [Next]_vars /\ part = "game" => (part = "game")'
  BY PartStays
<1>4. [Next]_vars /\ ~ (part = "game") => ~ (part = "game")'
  BY PartStays
<1>5. OneGame <=> (part = "game" => Games!OneGamePerProcess /\ Games!FirstGameWins)
  BY DEF OneGame
<1>. QED
  BY <1>1, <1>2, <1>3, <1>4, <1>5, OneGameIsKept, FirstGameIsTaken, PTL DEF Spec, DetectSpec

\* SkseConflicts, for any mods, files and libraries: of the DLLs and of the address
\* libraries exactly those are reported that conflict, a DLL with all of its mods and
\* first the one whose file the game sees.
THEOREM ConflictsAreFound == Spec => []SeConflictsExact
<1>1. Init /\ part = "se" => Se!SeInit
  BY DEF Init
<1>2. [Next]_vars /\ part = "se" => [Se!SeNext]_(Se!seVars)
  BY DEF Next, vars, sePart, Se!seVars, Se!table
<1>3. [Next]_vars /\ part = "se" => (part = "se")'
  BY PartStays
<1>4. [Next]_vars /\ ~ (part = "se") => ~ (part = "se")'
  BY PartStays
<1>5. SeConflictsExact <=> (part = "se" => Se!DllConflictsExact /\ Se!LibConflictsExact)
  BY DEF SeConflictsExact
<1>. QED
  BY <1>1, <1>2, <1>3, <1>4, <1>5, ConflictsAreExact, PTL DEF Spec, SeSpec

=============================================================================
