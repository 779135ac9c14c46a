------------------------- MODULE AttachClientProofs -------------------------
(***************************************************************************)
(* Proofs about AttachClient: the types, the order of the history, and     *)
(* what a client that lost its session falls back to.                      *)
(***************************************************************************)
EXTENDS AttachClient, TLAPS

(* retain                                                                  *)

\* Taking a path out leaves a sequence of names.
LEMMA WithoutType ==
  ASSUME NEW h \in Seq(Names), NEW p
  PROVE  Without(h, p) \in Seq(Names)
<1>1. CASE \E i \in 1..Len(h) : h[i] = p
  <2> DEFINE i == CHOOSE i \in 1..Len(h) : h[i] = p
             g == [j \in 1..(Len(h) - 1) |-> h[IF j < i THEN j ELSE j + 1]]
  <2>1. i \in 1..Len(h)
    BY <1>1
  <2> HIDE DEF i
  <2>2. Len(h) - 1 \in Nat
    BY <2>1
  <2>3. ASSUME NEW j \in 1..(Len(h) - 1)
        PROVE  h[IF j < i THEN j ELSE j + 1] \in Names
    BY <2>1
  <2>4. g \in [1..(Len(h) - 1) -> Names]
    BY <2>3
  <2>5. g \in Seq(Names)
    BY <2>2, <2>4
  <2> QED
    BY <1>1, <2>5 DEF Without, i
<1>2. CASE ~\E i \in 1..Len(h) : h[i] = p
  BY <1>2 DEF Without
<1> QED
  BY <1>1, <1>2

NoRepeats(h) == \A i, j \in 1..Len(h) : i < j => h[i] # h[j]

\* What is in g is in h, in the same order.
InOrder(g, h) ==
  \A i, j \in 1..Len(g) : i < j => \E k, l \in 1..Len(h) : k < l /\ g[i] = h[k] /\ g[j] = h[l]

\* The elements of Without(h, p) are elements of h in the same order, and none
\* of them is p if h has no duplicates.
LEMMA WithoutOrder ==
  ASSUME NEW h \in Seq(Names), NEW p, NoRepeats(h)
  PROVE  /\ InOrder(Without(h, p), h)
         /\ \A i \in 1..Len(Without(h, p)) : Without(h, p)[i] # p
<1> USE DEF NoRepeats, InOrder
<1>1. CASE \E i \in 1..Len(h) : h[i] = p
  <2> DEFINE m == CHOOSE i \in 1..Len(h) : h[i] = p
             From(j) == IF j < m THEN j ELSE j + 1
  <2>1. m \in 1..Len(h) /\ h[m] = p
    BY <1>1
  <2> HIDE DEF m
  <2>2. Without(h, p) = [j \in 1..(Len(h) - 1) |-> h[From(j)]]
    BY <1>1 DEF Without, m
  <2>3. Len(h) - 1 \in Nat
    BY <2>1
  <2>4. Len(Without(h, p)) = Len(h) - 1
    BY <2>2, <2>3
  <2>5. ASSUME NEW j \in 1..(Len(h) - 1)
        PROVE  From(j) \in 1..Len(h) /\ From(j) # m
    BY <2>1
  <2>6. ASSUME NEW i \in 1..(Len(h) - 1), NEW j \in 1..(Len(h) - 1), i < j
        PROVE  From(i) < From(j)
    BY <2>1, <2>6
  <2>7. ASSUME NEW j \in 1..(Len(h) - 1)
        PROVE  Without(h, p)[j] = h[From(j)] /\ Without(h, p)[j] # p
    <3>1. Without(h, p)[j] = h[From(j)]
      BY <2>2
    <3>2. From(j) \in 1..Len(h) /\ From(j) # m
      BY <2>5
    <3> HIDE DEF From
    <3>3. h[From(j)] # h[m]
      BY <2>1, <3>2
    <3> QED
      BY <2>1, <3>1, <3>3
  <2> HIDE DEF From
  <2> QED
    BY <2>4, <2>5, <2>6, <2>7
<1>2. CASE ~\E i \in 1..Len(h) : h[i] = p
  BY <1>2 DEF Without
<1> QED
  BY <1>1, <1>2

\* Without(h, p) has no element that h has not.
LEMMA WithoutElements ==
  ASSUME NEW h \in Seq(Names), NEW p
  PROVE  \A i \in 1..Len(Without(h, p)) : \E k \in 1..Len(h) : Without(h, p)[i] = h[k]
<1>1. CASE \E i \in 1..Len(h) : h[i] = p
  <2> DEFINE m == CHOOSE i \in 1..Len(h) : h[i] = p
  <2>1. m \in 1..Len(h)
    BY <1>1
  <2> HIDE DEF m
  <2>2. Without(h, p) = [j \in 1..(Len(h) - 1) |-> h[IF j < m THEN j ELSE j + 1]]
    BY <1>1 DEF Without, m
  <2>3. Len(h) - 1 \in Nat /\ Len(Without(h, p)) = Len(h) - 1
    BY <2>1, <2>2
  <2>4. ASSUME NEW j \in 1..(Len(h) - 1)
        PROVE  (IF j < m THEN j ELSE j + 1) \in 1..Len(h)
    BY <2>1
  <2> QED
    BY <2>2, <2>3, <2>4
<1>2. CASE ~\E i \in 1..Len(h) : h[i] = p
  BY <1>2 DEF Without
<1> QED
  BY <1>1, <1>2

-----------------------------------------------------------------------------
(* Types                                                                   *)

\* The client has a name to switch to.
HasTarget == step \in {"switch", "spawn"} => target # None

TypeInv == TypeOK /\ HasTarget

\* A name of the history is there to be popped, and a shorter history is left.
LEMMA PopType ==
  ASSUME NEW h \in Seq(Names), h # <<>>
  PROVE  /\ h[Len(h)] \in Names
         /\ SubSeq(h, 1, Len(h) - 1) \in Seq(Names)
         /\ Len(SubSeq(h, 1, Len(h) - 1)) = Len(h) - 1
         /\ \A i \in 1..(Len(h) - 1) : SubSeq(h, 1, Len(h) - 1)[i] = h[i]
<1>1. Len(h) \in Nat /\ Len(h) > 0
  OBVIOUS
<1>2. h[Len(h)] \in Names
  BY <1>1
<1>3. Len(h) - 1 \in Nat /\ Len(h) - 1 <= Len(h)
  BY <1>1
<1>4. SubSeq(h, 1, Len(h) - 1) = [i \in 1..(Len(h) - 1) |-> h[i]]
  BY <1>3
<1>5. \A i \in 1..(Len(h) - 1) : h[i] \in Names
  BY <1>1
<1>6. SubSeq(h, 1, Len(h) - 1) \in Seq(Names)
  BY <1>3, <1>4, <1>5
<1>7. Len(SubSeq(h, 1, Len(h) - 1)) = Len(h) - 1
  BY <1>3, <1>4
<1> QED
  BY <1>2, <1>4, <1>6, <1>7

\* A session that starts takes a name that has none.
LEMMA StartType ==
  ASSUME TypeOK, NEW n \in Names, Start(n)
  PROVE  /\ dir' \in [Names -> Sessions \cup {None}]
         /\ alive' \subseteq born' /\ born' \subseteq Sessions
         /\ \A m \in Names : Connects(m) => Connects(m)'
BY DEF TypeOK, Start, Connects

\* Every step keeps the types and a name to switch to.
LEMMA TypeStep ==
  ASSUME TypeInv, [Next]_vars
  PROVE  TypeInv'
<1> USE DEF TypeInv, TypeOK, HasTarget, Steps, worldVars, clientVars, visitVars, endVars
<1>1. ASSUME NEW n \in Names, StartElsewhere(n)
      PROVE  TypeInv'
  <2>1. Start(n)
    BY <1>1 DEF StartElsewhere
  <2>2. dir' \in [Names -> Sessions \cup {None}] /\ alive' \subseteq born' /\ born' \subseteq Sessions
    BY <2>1, StartType
  <2> QED
    BY <1>1, <2>2 DEF StartElsewhere, StillSteady
<1>2. ASSUME NEW n \in Names, End(n)
      PROVE  TypeInv'
  BY <1>2 DEF End, StillSteady
<1>3. ASSUME NEW n \in Names, Crash(n)
      PROVE  TypeInv'
  BY <1>3 DEF Crash, StillSteady
<1>4. ASSUME NEW n \in Names, NEW m \in Names, Rename(n, m)
      PROVE  TypeInv'
  BY <1>4 DEF Rename, StillSteady
<1>5. CASE CutStream
  BY <1>5 DEF CutStream
<1>6. CASE StdinEnds
  BY <1>6 DEF StdinEnds
<1>7. CASE OpenMenu \/ MenuDetach \/ MenuCancel \/ MenuFails \/ Redraw
  BY <1>7 DEF OpenMenu, MenuDetach, MenuCancel, MenuFails, Redraw, Goto
<1>8. ASSUME NEW n \in Names, MenuChoose(n)
      PROVE  TypeInv'
  BY <1>8, AttachClientAssumption DEF MenuChoose
<1>9. ASSUME NEW n \in Names, MenuNew(n)
      PROVE  TypeInv'
  <2>1. Start(n)
    BY <1>9 DEF MenuNew
  <2>2. dir' \in [Names -> Sessions \cup {None}] /\ alive' \subseteq born' /\ born' \subseteq Sessions
    BY <2>1, StartType
  <2> QED
    BY <1>9, <2>2, AttachClientAssumption DEF MenuNew
<1>10. CASE Connect
  <2>1. Without(history, current) \in Seq(Names)
    BY WithoutType
  <2>2. history' \in Seq(Names)
    BY <1>10, <2>1 DEF Connect
  <2>3. visits' \in Nat /\ lastVisit' \in [Names -> Nat]
    BY <1>10 DEF Connect
  <2>4. step' \in {"request", "failed"} /\ conn' \in Sessions \cup {None} /\ cut' \in BOOLEAN
    BY <1>10 DEF Connect
  <2>5. UNCHANGED <<dir, alive, born, current, stdin, target, todo, found, steady, recent>>
    BY <1>10 DEF Connect
  <2> QED
    BY <2>2, <2>3, <2>4, <2>5
<1>11. CASE Request
  BY <1>11 DEF Request
<1>12. CASE StreamEnds
  <2>1. Without(history, current) \in Seq(Names)
    BY WithoutType
  <2> QED
    BY <1>12, <2>1 DEF StreamEnds
<1>13. CASE Switch
  <2>1. target \in Names
    BY <1>13 DEF Switch
  <2>2. CASE Connects(target)
    BY <1>13, <2>1, <2>2 DEF Switch, SetOut
  <2>3. CASE ~Connects(target)
    BY <1>13, <2>1, <2>3 DEF Switch, Goto
  <2> QED
    BY <2>2, <2>3
<1>14. CASE Spawn
  <2>1. target \in Names
    BY <1>14 DEF Spawn
  <2>2. dir' \in [Names -> Sessions \cup {None}] /\ alive' \subseteq born' /\ born' \subseteq Sessions
    BY <1>14, <2>1, StartType DEF Spawn
  <2> QED
    BY <1>14, <2>1, <2>2 DEF Spawn, SetOut
<1>15. CASE SpawnFails
  BY <1>15 DEF SpawnFails, Goto
<1>16. CASE FallBack
  <2>1. Last \in Names /\ Popped \in Seq(Names)
    BY <1>16, PopType DEF FallBack, Last, Popped
  <2>2. CASE Connects(Last)
    BY <1>16, <2>1, <2>2 DEF FallBack, SetOut
  <2>3. CASE ~Connects(Last)
    BY <1>16, <2>1, <2>3 DEF FallBack
  <2> QED
    BY <2>2, <2>3
<1>17. CASE LookAround
  BY <1>17 DEF LookAround
<1>18. ASSUME NEW n \in Names, Scan(n)
       PROVE  TypeInv'
  BY <1>18 DEF Scan
<1>19. CASE Choose
  BY <1>19 DEF Choose, SetOut
<1>20. CASE GiveUp
  BY <1>20 DEF GiveUp, Goto
<1>21. CASE UNCHANGED vars
  BY <1>21 DEF vars
<1> QED
  BY <1>1, <1>2, <1>3, <1>4, <1>5, <1>6, <1>7, <1>8, <1>9, <1>10, <1>11, <1>12, <1>13, <1>14,
     <1>15, <1>16, <1>17, <1>18, <1>19, <1>20, <1>21 DEF Next, World, User, Client

\* The initial states are of the types.
LEMMA TypeInit == Init => TypeInv
<1> SUFFICES ASSUME Init PROVE TypeInv
  OBVIOUS
<1>1. PICK n \in Names, s \in Sessions :
        /\ dir = [m \in Names |-> IF m = n THEN s ELSE None]
        /\ alive = {s} /\ born = {s} /\ current = n
  BY DEF Init
<1>2. dir \in [Names -> Sessions \cup {None}] /\ alive \subseteq born /\ born \subseteq Sessions
      /\ current \in Names
  BY <1>1
<1>3. lastVisit \in [Names -> Nat] /\ visits \in Nat
  BY DEF Init
<1>4. step = "connect" /\ conn = None /\ target = None /\ cut = FALSE /\ stdin = TRUE
  BY DEF Init
<1>5. history \in Seq(Names) /\ recent \in Seq(Names)
  BY DEF Init
<1>6. todo = {} /\ found = {} /\ steady = {}
  BY DEF Init
<1> QED
  BY <1>2, <1>3, <1>4, <1>5, <1>6 DEF TypeInv, TypeOK, HasTarget, Steps

\* The invariant behind the others: types, and a name to switch to.
LEMMA TypeInvariant == Spec => []TypeInv
<1>1. TypeInv /\ [Next]_vars => TypeInv'
  BY TypeStep
<1> QED
  BY TypeInit, <1>1, PTL DEF Spec

\* The client and the sessions around it keep the variables in their types;
\* in particular the client is never without a path to connect to.
THEOREM ClientTypeCorrect == Spec => []TypeOK
<1>1. TypeInv => TypeOK
  BY DEF TypeInv
<1> QED
  BY TypeInvariant, <1>1, PTL

-----------------------------------------------------------------------------
(* What the client falls back to                                           *)

SteadyConnects == \A n \in steady : Connects(n)

\* The history is what is left of the one the fallback began with; what was
\* popped was gone for a while.
PoppedGone ==
  step \in {"fallback", "scan"} =>
    /\ Len(history) <= Len(recent)
    /\ \A i \in 1..Len(history) : history[i] = recent[i]
    /\ \A i \in 1..Len(recent) : Len(history) < i => recent[i] \notin steady

\* The search begins when nothing is left of the history.
ScanLast == step = "scan" => history = <<>>

\* The search loses no name that was there all the time.
ScanKeeps == step = "scan" => \A n \in steady : n = current \/ n \in todo \/ n \in found

FallInv == SteadyConnects /\ PoppedGone /\ ScanLast /\ ScanKeeps

\* If others act, fewer names are steady and the client is where it was.
LEMMA WorldFall ==
  ASSUME TypeInv, FallInv,
         steady' \subseteq steady, SteadyConnects',
         UNCHANGED <<recent, step, history, current, todo, found>>
  PROVE  FallInv'
BY DEF FallInv, SteadyConnects, PoppedGone, ScanLast, ScanKeeps

\* A step to somewhere outside a fallback has only to keep the steady names.
LEMMA ElsewhereFall ==
  ASSUME SteadyConnects', step' \notin {"fallback", "scan"}
  PROVE  FallInv'
BY DEF FallInv, SteadyConnects, PoppedGone, ScanLast, ScanKeeps

\* Every step of the client and of the others keeps the invariant.
LEMMA FallStep ==
  ASSUME TypeInv, FallInv, [Next]_vars
  PROVE  FallInv'
<1> USE DEF worldVars, clientVars, visitVars, endVars
<1>1. ASSUME StillSteady
      PROVE  steady' \subseteq steady /\ SteadyConnects' /\ recent' = recent
  BY <1>1 DEF StillSteady, SteadyConnects
<1>2. ASSUME UNCHANGED <<dir, alive>>, steady' \subseteq steady
      PROVE  SteadyConnects'
  BY <1>2 DEF FallInv, SteadyConnects, Connects
<1>3. ASSUME NEW n \in Names, StartElsewhere(n) \/ End(n) \/ Crash(n)
      PROVE  FallInv'
  <2>1. StillSteady /\ UNCHANGED <<step, history, current, todo, found>>
    BY <1>3 DEF StartElsewhere, End, Crash
  <2> QED
    BY <2>1, <1>1, WorldFall
<1>4. ASSUME NEW n \in Names, NEW m \in Names, Rename(n, m)
      PROVE  FallInv'
  <2>1. StillSteady /\ UNCHANGED <<step, history, current, todo, found>>
    BY <1>4 DEF Rename
  <2> QED
    BY <2>1, <1>1, WorldFall
<1>5. CASE CutStream \/ UNCHANGED vars
  <2>1. UNCHANGED <<dir, alive, steady, recent, step, history, current, todo, found>>
    BY <1>5 DEF CutStream, vars
  <2> QED
    BY <2>1, <1>2, WorldFall
<1>6. CASE StdinEnds \/ OpenMenu \/ MenuDetach \/ MenuCancel \/ MenuFails \/ Redraw
           \/ Connect \/ Request \/ SpawnFails \/ GiveUp
  <2>1. UNCHANGED <<dir, alive, steady>> /\ step' \notin {"fallback", "scan"}
    BY <1>6 DEF StdinEnds, OpenMenu, MenuDetach, MenuCancel, MenuFails, Redraw, Connect,
                Request, SpawnFails, GiveUp, Goto
  <2> QED
    BY <2>1, <1>2, ElsewhereFall
<1>7. ASSUME NEW n \in Names, MenuChoose(n)
      PROVE  FallInv'
  BY <1>2, <1>7, ElsewhereFall DEF MenuChoose
<1>8. ASSUME NEW n \in Names, MenuNew(n)
      PROVE  FallInv'
  <2>1. Start(n) /\ UNCHANGED steady /\ step' = "switch"
    BY <1>8 DEF MenuNew
  <2>2. SteadyConnects'
    BY <2>1, StartType DEF TypeInv, TypeOK, FallInv, SteadyConnects
  <2> QED
    BY <2>1, <2>2, ElsewhereFall
<1>9. CASE StreamEnds
  <2>1. UNCHANGED <<dir, alive>> /\ steady' = {n \in Names : Connects(n)}
        /\ step' = "fallback" /\ recent' = history'
    BY <1>9 DEF StreamEnds
  <2>2. history' \in Seq(Names)
    BY <1>9, WithoutType DEF StreamEnds, TypeInv, TypeOK
  <2> QED
    BY <2>1, <2>2 DEF FallInv, SteadyConnects, PoppedGone, ScanLast, ScanKeeps, Connects
<1>10. CASE Switch
  <2>1. CASE Connects(target)
    BY <1>2, <1>10, <2>1, ElsewhereFall DEF Switch, SetOut
  <2>2. CASE ~Connects(target)
    BY <1>2, <1>10, <2>2, ElsewhereFall DEF Switch, Goto
  <2> QED
    BY <2>1, <2>2
<1>11. CASE Spawn
  BY <1>11, ElsewhereFall DEF Spawn, SetOut, SteadyConnects
<1>12. CASE FallBack
  <2>1. CASE Connects(Last)
    BY <1>2, <1>12, <2>1, ElsewhereFall DEF FallBack, SetOut
  <2>2. CASE ~Connects(Last)
    <3>1. UNCHANGED <<dir, alive, steady, recent, step>> /\ step = "fallback"
          /\ history # <<>> /\ history' = Popped
      BY <1>12, <2>2 DEF FallBack
    <3>2. Len(history) \in Nat \ {0} /\ Len(recent) \in Nat
      BY <3>1 DEF TypeInv, TypeOK
    <3>3. Len(history') = Len(history) - 1 /\ \A i \in 1..(Len(history) - 1) : history'[i] = history[i]
      BY <3>1, PopType DEF Popped, TypeInv, TypeOK
    <3>4. history[Len(history)] \notin steady
      BY <2>2 DEF FallInv, SteadyConnects, Last
    <3>5. PoppedGone'
      BY <3>1, <3>2, <3>3, <3>4 DEF FallInv, PoppedGone
    <3>6. SteadyConnects'
      BY <1>2, <3>1
    <3> QED
      BY <3>1, <3>5, <3>6 DEF FallInv, ScanLast, ScanKeeps
  <2> QED
    BY <2>1, <2>2
<1>13. CASE LookAround
  <2>1. UNCHANGED <<dir, alive, steady, recent, history, current>>
        /\ step = "fallback" /\ step' = "scan" /\ history = <<>>
        /\ todo' = {n \in Names : dir[n] # None} \ {current}
    BY <1>13 DEF LookAround
  <2>2. ASSUME NEW n \in steady
        PROVE  n \in Names /\ dir[n] # None
    BY AttachClientAssumption DEF TypeInv, TypeOK, FallInv, SteadyConnects, Connects
  <2>3. SteadyConnects'
    BY <1>2, <2>1
  <2> QED
    BY <2>1, <2>2, <2>3 DEF FallInv, PoppedGone, ScanLast, ScanKeeps
<1>14. ASSUME NEW n \in Names, Scan(n)
       PROVE  FallInv'
  <2>1. UNCHANGED <<dir, alive, steady, recent, history, current, step>>
        /\ todo' = todo \ {n} /\ found' = IF Connects(n) THEN found \cup {n} ELSE found
    BY <1>14 DEF Scan
  <2>2. SteadyConnects'
    BY <1>2, <2>1
  <2> QED
    BY <2>1, <2>2 DEF FallInv, SteadyConnects, PoppedGone, ScanLast, ScanKeeps
<1>15. CASE Choose
  BY <1>2, <1>15, ElsewhereFall DEF Choose, SetOut
<1> QED
  BY <1>3, <1>4, <1>5, <1>6, <1>7, <1>8, <1>9, <1>10, <1>11, <1>12, <1>13, <1>14, <1>15
     DEF Next, World, User, Client

\* The invariant of a fallback holds in every state.
LEMMA FallInvariant == Spec => []FallInv
<1>1. Init => FallInv
  BY DEF Init, FallInv, SteadyConnects, PoppedGone, ScanLast, ScanKeeps
<1>2. TypeInv /\ FallInv /\ [Next]_vars => FallInv'
  BY FallStep
<1> QED
  BY TypeInvariant, <1>1, <1>2, PTL DEF Spec

\* A client that lost its session goes to the session it visited last of those
\* in its history that were there all the time, however many there are and
\* whatever other users do meanwhile.
THEOREM FallsBackToMostRecent == Spec => BackToMostRecent
<1> DEFINE A == \A i \in 1..Len(recent) :
                  step \in {"fallback", "scan"} /\ step' = "connect" /\ recent[i] \in steady
                    => \E j \in i..Len(recent) : current' = recent[j]
<1>1. TypeInv /\ FallInv /\ [Next]_vars => [A]_vars
  <2> SUFFICES ASSUME TypeInv, FallInv, Next, NEW i \in 1..Len(recent),
                      step \in {"fallback", "scan"}, step' = "connect", recent[i] \in steady
               PROVE  \E j \in i..Len(recent) : current' = recent[j]
    OBVIOUS
  <2>1. FallBack \/ Choose
    BY DEF Next, World, User, Client, StartElsewhere, End, Crash, Rename, CutStream, StdinEnds,
           OpenMenu, MenuDetach, MenuCancel, MenuFails, MenuChoose, MenuNew, Redraw, Connect,
           Request, StreamEnds, Switch, Spawn, SpawnFails, LookAround, Scan, GiveUp, Goto,
           clientVars
  <2>2. CASE FallBack
    <3>1. history # <<>> /\ Connects(Last) /\ current' = Last
      BY <2>2 DEF FallBack, SetOut
    <3>2. Len(history) \in Nat \ {0} /\ Len(recent) \in Nat
      BY <3>1 DEF TypeInv, TypeOK
    <3>3. Len(history) \in i..Len(recent) /\ Last = recent[Len(history)]
      BY <3>2 DEF FallInv, PoppedGone, Last
    <3> QED
      BY <3>1, <3>3
  <2>3. CASE Choose
    <3>1. history = <<>>
      BY <2>3 DEF Choose, FallInv, ScanLast
    <3> QED
      BY <3>1 DEF FallInv, PoppedGone, TypeInv, TypeOK
  <2> QED
    BY <2>1, <2>2, <2>3
<1> QED
  BY TypeInvariant, FallInvariant, <1>1, PTL DEF Spec, BackToMostRecent

\* A client that ends for want of another session has overlooked none that was
\* there all the time, whatever is started, renamed or ended while it looks.
THEOREM GivesUpOnlyAlone == Spec => GivesUpAlone
<1>1. FallInv /\ [Next]_vars => [step = "scan" /\ step' = "left" => steady \subseteq {current}]_vars
  <2> SUFFICES ASSUME FallInv, Next, step = "scan", step' = "left"
               PROVE  steady \subseteq {current}
    OBVIOUS
  <2>1. GiveUp
    BY DEF Next, World, User, Client, StartElsewhere, End, Crash, Rename, CutStream, StdinEnds,
           OpenMenu, MenuDetach, MenuCancel, MenuFails, MenuChoose, MenuNew, Redraw, Connect,
           Request, StreamEnds, Switch, Spawn, SpawnFails, FallBack, LookAround, Scan, Choose,
           SetOut, Goto, clientVars
  <2> QED
    BY <2>1 DEF GiveUp, FallInv, ScanKeeps
<1> QED
  BY FallInvariant, <1>1, PTL DEF Spec, GivesUpAlone

-----------------------------------------------------------------------------
(* The history                                                             *)

\* h is in the order of the visits v, and names what was visited.
Sorted(h, v) ==
  /\ \A i \in 1..Len(h) : 0 < v[h[i]]
  /\ \A i, j \in 1..Len(h) : i < j => v[h[i]] < v[h[j]]

\* No visit is later than the last one.
VisitsCounted == \A n \in Names : lastVisit[n] <= visits

HistorySorted == Sorted(history, lastVisit)

CurrentLast ==
  step \in {"request", "streaming", "menu", "redraw"} =>
    history # <<>> /\ history[Len(history)] = current

HistInv == VisitsCounted /\ HistorySorted /\ CurrentLast

\* What is left when a path is taken out is in order.
LEMMA WithoutSorted ==
  ASSUME NEW h \in Seq(Names), NEW v \in [Names -> Nat], NEW p, Sorted(h, v)
  PROVE  /\ Sorted(Without(h, p), v)
         /\ \A i \in 1..Len(Without(h, p)) : Without(h, p)[i] # p
<1> DEFINE g == Without(h, p)
<1>1. \A i \in 1..Len(h) : h[i] \in Names
  OBVIOUS
<1>2. \A i, j \in 1..Len(h) : i < j => h[i] # h[j]
  BY <1>1 DEF Sorted
<1>3. NoRepeats(h)
  BY <1>2 DEF NoRepeats
<1>4. InOrder(g, h) /\ \A i \in 1..Len(g) : g[i] # p
  BY <1>3, WithoutOrder
<1>5. \A i \in 1..Len(g) : \E k \in 1..Len(h) : g[i] = h[k]
  BY WithoutElements
<1> HIDE DEF g
<1>6. \A i \in 1..Len(g) : 0 < v[g[i]]
  BY <1>5 DEF Sorted
<1>7. ASSUME NEW i \in 1..Len(g), NEW j \in 1..Len(g), i < j
      PROVE  v[g[i]] < v[g[j]]
  <2>1. PICK k \in 1..Len(h), l \in 1..Len(h) : k < l /\ g[i] = h[k] /\ g[j] = h[l]
    BY <1>4, <1>7 DEF InOrder
  <2>2. v[h[k]] < v[h[l]]
    BY <2>1 DEF Sorted
  <2> QED
    BY <2>1, <2>2
<1> QED
  BY <1>4, <1>6, <1>7 DEF g, Sorted

\* Setting out to a path makes it the last of the history.
LEMMA VisitSorted ==
  ASSUME NEW h \in Seq(Names), NEW v \in [Names -> Nat], NEW k \in Nat, NEW p \in Names,
         Sorted(h, v), \A n \in Names : v[n] <= k
  PROVE  /\ Sorted(Append(Without(h, p), p), [v EXCEPT ![p] = k + 1])
         /\ \A n \in Names : [v EXCEPT ![p] = k + 1][n] <= k + 1
<1> DEFINE g == Without(h, p)
           a == Append(g, p)
           w == [v EXCEPT ![p] = k + 1]
<1>1. g \in Seq(Names)
  BY WithoutType
<1>2. Sorted(g, v) /\ \A i \in 1..Len(g) : g[i] # p
  BY WithoutSorted
<1> HIDE DEF g
<1>3. /\ Len(g) \in Nat /\ Len(a) = Len(g) + 1 /\ a[Len(g) + 1] = p
      /\ \A i \in 1..Len(g) : a[i] = g[i] /\ g[i] \in Names
  BY <1>1
<1>4. \A i \in 1..Len(g) : w[a[i]] = v[g[i]] /\ v[g[i]] \in Nat /\ v[g[i]] <= k
  BY <1>2, <1>3
<1>5. w[a[Len(g) + 1]] = k + 1
  BY <1>3
<1>6. ASSUME NEW n \in Names
      PROVE  w[n] <= k + 1
  <2>1. v[n] \in Nat /\ v[n] <= k
    OBVIOUS
  <2> QED
    BY <2>1
<1> HIDE DEF a, w
<1>7. \A i \in 1..Len(a) : i \in 1..Len(g) \/ i = Len(g) + 1
  BY <1>3
<1>8. ASSUME NEW i \in 1..Len(a)
      PROVE  0 < w[a[i]]
  <2>1. CASE i \in 1..Len(g)
    BY <1>2, <1>4, <2>1 DEF Sorted
  <2>2. CASE i = Len(g) + 1
    BY <1>5, <2>2
  <2> QED
    BY <1>7, <2>1, <2>2
<1>9. ASSUME NEW i \in 1..Len(a), NEW j \in 1..Len(a), i < j
      PROVE  w[a[i]] < w[a[j]]
  <2>1. i \in 1..Len(g)
    BY <1>3, <1>9
  <2>2. CASE j \in 1..Len(g)
    BY <1>2, <1>4, <1>9, <2>1, <2>2 DEF Sorted
  <2>3. CASE j = Len(g) + 1
    BY <1>4, <1>5, <2>1, <2>3
  <2> QED
    BY <1>7, <2>2, <2>3
<1>10. Sorted(a, w)
  BY <1>8, <1>9 DEF Sorted
<1> QED
  BY <1>6, <1>10 DEF a, w, g

\* A step that leaves history and visits alone and stays where the client is, or
\* goes where the history need not end with the current path, keeps the invariant.
LEMMA HistUnchanged ==
  ASSUME HistInv, UNCHANGED <<history, visits, lastVisit>>,
         \/ step' \notin {"request", "streaming", "menu", "redraw"}
         \/ step \in {"request", "streaming", "menu", "redraw"} /\ UNCHANGED current
  PROVE  HistInv'
BY DEF HistInv, VisitsCounted, HistorySorted, CurrentLast

\* Every step keeps the order of the history.
LEMMA HistStep ==
  ASSUME TypeInv, HistInv, [Next]_vars
  PROVE  HistInv'
<1> USE DEF clientVars, visitVars
<1>1. ASSUME NEW n \in Names, StartElsewhere(n) \/ End(n) \/ Crash(n)
      PROVE  HistInv'
  <2>1. UNCHANGED <<history, visits, lastVisit, step, current>>
    BY <1>1 DEF StartElsewhere, End, Crash
  <2> QED
    BY <2>1, HistUnchanged
<1>2. ASSUME NEW n \in Names, NEW m \in Names, Rename(n, m)
      PROVE  HistInv'
  <2>1. UNCHANGED <<history, visits, lastVisit, step, current>>
    BY <1>2 DEF Rename
  <2> QED
    BY <2>1, HistUnchanged
<1>3. CASE CutStream \/ StdinEnds \/ UNCHANGED vars
  <2>1. UNCHANGED <<history, visits, lastVisit, step, current>>
    BY <1>3 DEF CutStream, StdinEnds, vars
  <2> QED
    BY <2>1, HistUnchanged
<1>4. CASE OpenMenu \/ MenuDetach \/ MenuCancel \/ MenuFails \/ Redraw \/ Request
  BY <1>4, HistUnchanged DEF OpenMenu, MenuDetach, MenuCancel, MenuFails, Redraw, Request, Goto
<1>5. ASSUME NEW n \in Names, MenuChoose(n) \/ MenuNew(n) \/ Scan(n)
      PROVE  HistInv'
  BY <1>5, HistUnchanged DEF MenuChoose, MenuNew, Scan
<1>6. CASE Switch \/ Spawn \/ SpawnFails \/ LookAround \/ Choose \/ GiveUp
  BY <1>6, HistUnchanged DEF Switch, Spawn, SpawnFails, LookAround, Choose, GiveUp, SetOut, Goto
<1>7. CASE Connect
  <2>1. history' = Append(Without(history, current), current)
        /\ visits' = visits + 1 /\ lastVisit' = [lastVisit EXCEPT ![current] = visits + 1]
        /\ current' = current
    BY <1>7 DEF Connect
  <2>2. VisitsCounted' /\ HistorySorted'
    BY <2>1, VisitSorted DEF TypeInv, TypeOK, HistInv, VisitsCounted, HistorySorted
  <2>3. Without(history, current) \in Seq(Names)
    BY WithoutType DEF TypeInv, TypeOK
  <2>4. CurrentLast'
    BY <2>1, <2>3 DEF CurrentLast
  <2> QED
    BY <2>2, <2>4 DEF HistInv
<1>8. CASE StreamEnds
  <2>1. history' = Without(history, current) /\ UNCHANGED <<visits, lastVisit>>
        /\ step' = "fallback"
    BY <1>8 DEF StreamEnds
  <2>2. HistorySorted'
    BY <2>1, WithoutSorted DEF TypeInv, TypeOK, HistInv, HistorySorted
  <2> QED
    BY <2>1, <2>2 DEF HistInv, VisitsCounted, CurrentLast
<1>9. CASE FallBack
  <2>1. history # <<>> /\ history' = Popped /\ UNCHANGED <<visits, lastVisit>>
        /\ step' \in {"fallback", "connect"}
    BY <1>9 DEF FallBack, SetOut
  <2>2. /\ Len(history) \in Nat /\ Len(history') = Len(history) - 1
        /\ \A i \in 1..(Len(history) - 1) : history'[i] = history[i]
    BY <2>1, PopType DEF Popped, TypeInv, TypeOK
  <2>3. HistorySorted'
    BY <2>1, <2>2 DEF HistInv, HistorySorted, Sorted
  <2> QED
    BY <2>1, <2>3 DEF HistInv, VisitsCounted, CurrentLast
<1> QED
  BY <1>1, <1>2, <1>3, <1>4, <1>5, <1>6, <1>7, <1>8, <1>9 DEF Next, World, User, Client

\* The menu is shown, and a fallback pops, the sessions in the order of their last
\* visits, each once, and the client is at the last of them.
THEOREM HistoryInOrder == Spec => []MostRecentLast
<1>1. Init => HistInv
  BY DEF Init, HistInv, VisitsCounted, HistorySorted, Sorted, CurrentLast
<1>2. TypeInv /\ HistInv /\ [Next]_vars => HistInv'
  BY HistStep
<1>3. HistInv => MostRecentLast
  BY DEF HistInv, HistorySorted, Sorted, CurrentLast, MostRecentLast
<1> QED
  BY TypeInvariant, <1>1, <1>2, <1>3, PTL DEF Spec
=============================================================================
