----------------------------- MODULE OutboxProofs -----------------------------
(***************************************************************************)
(* Theorems about Outbox, for every set of events, publications, workers   *)
(* and dispatchers and every number of attempts, whoever crashes: the      *)
(* claim query, the receipt and the lease keep publications apart and      *)
(* deliver each fan-out once.                                              *)
(***************************************************************************)
EXTENDS Outbox, TLAPS

-----------------------------------------------------------------------------
(* Rows.                                                                   *)

\* What an UPDATE leaves in the row is either what the session wrote or what
\* was there.
LEMMA WrittenRow ==
  ASSUME NEW current \in Row, NEW old \in Row, NEW new \in Row
  PROVE  /\ Written(current, old, new) \in Row
         /\ Written(current, old, new).status \in {current.status, new.status}
  BY DEF Written, Row

LEMMA ReleasedRow ==
  ASSUME NEW r \in Row, NEW s \in {"published", "failed", "dead_letter"}
  PROVE  /\ Released(r, s) \in Row
         /\ Released(r, s).status = s
  BY DEF Released, Row

LEMMA ClaimedRow ==
  ASSUME NEW r \in Row, NEW a \in Actor
  PROVE  /\ Claimed(r, a) \in Row
         /\ Claimed(r, a).status = "claimed"
<1> DEFINE s == [r EXCEPT !.status = "claimed"]
           o == [s EXCEPT !.owner = a]
           l == [o EXCEPT !.lease = "running"]
<1>1. s \in Row /\ s.status = "claimed" /\ s.attempts = r.attempts
  BY DEF Row
<1>2. Claimed(r, a) = [l EXCEPT !.attempts = r.attempts + 1]
  BY Zenon DEF Claimed
<1> HIDE DEF s
<1>3. o \in Row /\ o.status = "claimed" /\ o.attempts = r.attempts
  BY <1>1 DEF Row
<1> HIDE DEF o
<1>4. l \in Row /\ l.status = "claimed" /\ l.attempts = r.attempts
  BY <1>3 DEF Row
<1> HIDE DEF l
<1> QED
  BY <1>2, <1>4 DEF Row

LEMMA NewRowIsRow == NewRow \in Row /\ NewRow.status = "pending"
  BY DEF NewRow, Row

LEMMA NoWorkIsWork ==
  /\ NoWork \in Work
  /\ NoWork.p = Nobody /\ NoWork.fanout = FALSE /\ NoWork.after = "idle"
  BY NewRowIsRow DEF NoWork, Work, EventStatus

\* Work that only names its publication.
LEMMA NamedWork ==
  ASSUME NEW p \in Publication \cup {Nobody}
  PROVE  /\ [NoWork EXCEPT !.p = p] \in Work
         /\ [NoWork EXCEPT !.p = p].p = p
         /\ [NoWork EXCEPT !.p = p].fanout = FALSE
         /\ [NoWork EXCEPT !.p = p].after = "idle"
  BY NewRowIsRow DEF NoWork, Work, EventStatus

LEMMA DerivedStatus ==
  ASSUME NEW p, NEW r PROVE Derived(p, r) \in EventStatus
  BY DEF Derived, Aggregate, EventStatus

-----------------------------------------------------------------------------
(* What the reads and the writes of a session do to its work.              *)

\* LoadInto touches a's work alone.
LEMMA LoadWork ==
  ASSUME TypeOK, NEW a \in Actor, NEW p \in Publication, LoadInto(a, p)
  PROVE  /\ work' \in [Actor -> Work]
         /\ \A b \in Actor \ {a} : work'[b] = work[b]
         /\ work'[a].p = p /\ work'[a].fanout = FALSE
         /\ work'[a].after \in {"idle", "next"}
<1> DEFINE loaded == [p |-> p, old |-> row[p], new |-> NewRow, seen |-> event[EventOf[p]],
                      verdict |-> "pending_publication", fanout |-> FALSE,
                      after |-> IF a \in Worker THEN "next" ELSE "idle"]
<1>1. row[p] \in Row /\ event[EventOf[p]] \in EventStatus
  BY EventAssumption DEF TypeOK
<1>2. loaded \in Work
  BY <1>1, NewRowIsRow DEF Work, EventStatus
<1>3. loaded.p = p /\ loaded.fanout = FALSE /\ loaded.after \in {"idle", "next"}
  OBVIOUS
<1>4. work' = [work EXCEPT ![a] = loaded]
  BY DEF LoadInto
<1> HIDE DEF loaded
<1> QED
  BY <1>2, <1>3, <1>4 DEF TypeOK

\* WriteRow takes the row lock and keeps what the session will commit.
LEMMA WriteWork ==
  ASSUME TypeOK, NEW a \in Actor, work[a].p \in Publication, NEW new \in Row,
         NEW after \in {"idle", "next", "sending"}, WriteRow(a, new, after)
  PROVE  /\ work' \in [Actor -> Work]
         /\ pc' \in [Actor -> Label]
         /\ rowHolder' \in [Publication -> Actor \cup {Nobody}]
         /\ \A b \in Actor \ {a} : work'[b] = work[b] /\ pc'[b] = pc[b]
         /\ pc'[a] \in {"event", "commit"}
         /\ work'[a].p = work[a].p
         /\ work'[a].fanout = work[a].fanout
         /\ work'[a].after = after
         /\ work'[a].new.status \in {row[work[a].p].status, new.status}
         /\ work'[a].verdict = Derived(work[a].p, work'[a].new)
         /\ UNCHANGED <<row, event, outcome, todo, eventHolder>>
<1> DEFINE p == work[a].p
           written == Written(row[p], work[a].old, new)
           seen == IF a \in Worker THEN work[a].seen ELSE event[EventOf[p]]
           flushed == [p |-> p, old |-> NewRow, new |-> written, seen |-> seen,
                       verdict |-> Derived(p, written), fanout |-> work[a].fanout,
                       after |-> after]
<1>1. /\ work[a].old \in Row /\ work[a].seen \in EventStatus
      /\ work[a].fanout \in BOOLEAN /\ row[p] \in Row /\ event[EventOf[p]] \in EventStatus
  BY EventAssumption DEF TypeOK, Work
<1>2. written \in Row /\ written.status \in {row[p].status, new.status}
  BY <1>1, WrittenRow
<1>3. Derived(p, written) \in EventStatus
  BY DerivedStatus
<1>4. flushed \in Work
  <2> HIDE DEF written
  <2> QED
    BY <1>1, <1>2, <1>3, NewRowIsRow DEF Work
<1>5. /\ work' = [work EXCEPT ![a] = flushed]
      /\ rowHolder' = [rowHolder EXCEPT ![p] = a]
      /\ pc' = [pc EXCEPT ![a] =
           IF a \in Worker \/ Derived(p, written) # seen THEN "event" ELSE "commit"]
      /\ UNCHANGED <<row, event, outcome, todo, eventHolder>>
  BY Zenon DEF WriteRow, Goto
<1>6. /\ flushed.p = p /\ flushed.new = written /\ flushed.verdict = Derived(p, written)
      /\ flushed.fanout = work[a].fanout /\ flushed.after = after
  OBVIOUS
<1> HIDE DEF flushed, written, seen
<1>7. work' \in [Actor -> Work] /\ work'[a] = flushed
  BY <1>4, <1>5 DEF TypeOK
<1>8. /\ rowHolder' \in [Publication -> Actor \cup {Nobody}]
      /\ \A b \in Actor \ {a} : work'[b] = work[b] /\ pc'[b] = pc[b]
      /\ pc' \in [Actor -> Label]
      /\ pc'[a] \in {"event", "commit"}
  BY <1>5 DEF TypeOK, Label
<1> QED
  BY <1>2, <1>5, <1>6, <1>7, <1>8

-----------------------------------------------------------------------------
(* Type correctness.                                                       *)

\* An actor between two publications names none, and a publication it is busy
\* with has left its batch; only a dispatcher goes on to send, and it claims
\* no batches.
PlaceInv ==
  \A a \in Actor :
    /\ work[a].p = Nobody <=> pc[a] \in {"idle", "next"}
    /\ work[a].p \notin todo[a]
    /\ work[a].after = "sending" => a \in Dispatcher
    /\ a \in Dispatcher => todo[a] = {}

LEMMA InitPlace == Init => TypeOK /\ PlaceInv
<1> SUFFICES ASSUME Init PROVE TypeOK /\ PlaceInv
  OBVIOUS
<1>1. TypeOK
  BY NewRowIsRow, NoWorkIsWork DEF Init, TypeOK, EventStatus, Label
<1>2. PlaceInv
  BY NoWorkIsWork DEF Init, PlaceInv
<1> QED
  BY <1>1, <1>2

\* A busy actor's publication is one.
LEMMA BusyWithOne ==
  ASSUME TypeOK, PlaceInv, NEW a \in Actor, pc[a] \notin {"idle", "next"}
  PROVE  work[a].p \in Publication
  BY DEF TypeOK, PlaceInv, Work

\* A step of one actor that changes no rows but possibly their lock.
LEMMA OwnStep ==
  ASSUME TypeOK, PlaceInv, NEW a \in Actor,
         work' \in [Actor -> Work], pc' \in [Actor -> Label],
         \A b \in Actor \ {a} : work'[b] = work[b] /\ pc'[b] = pc[b],
         UNCHANGED <<row, event, receipt, delivered, todo>>,
         stream' \subseteq Publication,
         rowHolder' \in [Publication -> Actor \cup {Nobody}],
         eventHolder' \in [Event -> Actor \cup {Nobody}],
         work'[a].p \in {work[a].p, Nobody} \/ todo[a] = {},
         work'[a].p = Nobody <=> pc'[a] \in {"idle", "next"},
         work'[a].after = "sending" => a \in Dispatcher
  PROVE  TypeOK' /\ PlaceInv'
<1>1. TypeOK'
  BY DEF TypeOK
<1>2. PlaceInv'
  <2> SUFFICES ASSUME NEW b \in Actor
               PROVE  /\ work'[b].p = Nobody <=> pc'[b] \in {"idle", "next"}
                      /\ work'[b].p \notin todo'[b]
                      /\ work'[b].after = "sending" => b \in Dispatcher
                      /\ b \in Dispatcher => todo'[b] = {}
    BY DEF PlaceInv
  <2>1. CASE b # a
    BY <2>1 DEF PlaceInv
  <2>2. CASE b = a
    <3>1. Nobody \notin todo[a]
      BY ActorAssumption DEF TypeOK
    <3> QED
      BY <2>2, <3>1 DEF PlaceInv
  <2> QED
    BY <2>1, <2>2
<1> QED
  BY <1>1, <1>2

\* An unlocking keeps the types of the locks.
LEMMA UnlockTyped ==
  ASSUME TypeOK, NEW a \in Actor, Unlock(a)
  PROVE  /\ rowHolder' \in [Publication -> Actor \cup {Nobody}]
         /\ eventHolder' \in [Event -> Actor \cup {Nobody}]
  BY DEF TypeOK, Unlock

LEMMA WriteStep ==
  ASSUME TypeOK, PlaceInv, NEW a \in Actor, pc[a] \notin {"idle", "next"},
         NEW new \in Row, NEW after \in {"idle", "next", "sending"},
         WriteRow(a, new, after), after = "sending" => a \in Dispatcher
  PROVE  TypeOK' /\ PlaceInv'
<1>1. work[a].p \in Publication
  BY BusyWithOne
<1>2. /\ work' \in [Actor -> Work]
      /\ pc' \in [Actor -> Label]
      /\ rowHolder' \in [Publication -> Actor \cup {Nobody}]
      /\ \A b \in Actor \ {a} : work'[b] = work[b] /\ pc'[b] = pc[b]
      /\ pc'[a] \in {"event", "commit"}
      /\ work'[a].p = work[a].p
      /\ work'[a].after = after
      /\ UNCHANGED <<row, event, outcome, todo, eventHolder>>
  BY <1>1, WriteWork
<1>3. work'[a].p # Nobody
  BY <1>1, <1>2, ActorAssumption
<1> QED
  BY <1>2, <1>3, OwnStep DEF TypeOK, outcome

LEMMA LoadStep ==
  ASSUME TypeOK, PlaceInv, NEW a \in Actor, NEW p \in Publication,
         p = work[a].p \/ todo[a] = {}, NEW label \in Label \ {"idle", "next"},
         LoadInto(a, p), Goto(a, label),
         UNCHANGED <<row, event, outcome, todo, locks>>
  PROVE  TypeOK' /\ PlaceInv'
<1>1. /\ work' \in [Actor -> Work]
      /\ \A b \in Actor \ {a} : work'[b] = work[b]
      /\ work'[a].p = p /\ work'[a].after \in {"idle", "next"}
  BY LoadWork
<1>2. /\ pc' \in [Actor -> Label]
      /\ \A b \in Actor \ {a} : pc'[b] = pc[b]
      /\ pc'[a] = label
  BY DEF Goto, TypeOK
<1>3. p # Nobody
  BY ActorAssumption
<1> QED
  BY <1>1, <1>2, <1>3, OwnStep DEF TypeOK, outcome, locks

LEMMA NextPlace == TypeOK /\ PlaceInv /\ [Next]_vars => TypeOK' /\ PlaceInv'
<1> SUFFICES ASSUME TypeOK, PlaceInv, [Next]_vars PROVE TypeOK' /\ PlaceInv'
  OBVIOUS
<1> USE DEF outcome, locks
<1>1. CASE UNCHANGED vars
  BY <1>1 DEF TypeOK, PlaceInv, vars
<1>2. ASSUME NEW w \in Worker, NEW batch \in SUBSET WorkerPub \ {{}}, Claim(w, batch)
      PROVE  TypeOK' /\ PlaceInv'
  <2>1. \A p \in Publication : Claimed(row[p], w) \in Row
    BY ClaimedRow DEF TypeOK, Actor
  <2>2. batch \subseteq Publication
    BY PublicationAssumption
  <2>3. TypeOK'
    BY <1>2, <2>1, <2>2 DEF Claim, Goto, TypeOK, Label, Actor
  <2>4. PlaceInv'
    <3>1. w \in Actor \ Dispatcher /\ work[w].p = Nobody /\ Nobody \notin batch
      BY <1>2, <2>2, ActorAssumption DEF Claim, PlaceInv, Actor
    <3> QED
      BY <1>2, <3>1 DEF Claim, Goto, TypeOK, PlaceInv
  <2> QED
    BY <2>3, <2>4
<1>3. ASSUME NEW w \in Worker, NEW p \in WorkerPub, Load(w, p)
      PROVE  TypeOK' /\ PlaceInv'
  <2>1. w \in Actor \ Dispatcher /\ p \in Publication /\ p # Nobody
    BY PublicationAssumption, ActorAssumption DEF Actor
  <2>2. /\ work' \in [Actor -> Work]
        /\ \A b \in Actor \ {w} : work'[b] = work[b]
        /\ work'[w].p = p /\ work'[w].after \in {"idle", "next"}
    BY <1>3, <2>1, LoadWork DEF Load
  <2>3. TypeOK'
    BY <1>3, <2>1, <2>2 DEF Load, Goto, TypeOK, Label
  <2>4. PlaceInv'
    BY <1>3, <2>1, <2>2 DEF Load, Goto, TypeOK, PlaceInv
  <2> QED
    BY <2>3, <2>4
<1>4. ASSUME NEW w \in Worker, EndRun(w) PROVE TypeOK' /\ PlaceInv'
  BY <1>4 DEF EndRun, Goto, TypeOK, PlaceInv, Label, Actor
<1>5. ASSUME NEW w \in Worker, CheckReceipt(w) PROVE TypeOK' /\ PlaceInv'
  <2> DEFINE checked == [work[w] EXCEPT !.fanout = work[w].p \notin receipt]
  <2>1. w \in Actor /\ work[w] \in Work
    BY DEF Actor, TypeOK
  <2>2. checked \in Work /\ checked.p = work[w].p /\ checked.after = work[w].after
    BY <2>1 DEF Work
  <2>3. work' = [work EXCEPT ![w] = checked]
    BY <1>5, Zenon DEF CheckReceipt
  <2> HIDE DEF checked
  <2> QED
    BY <1>5, <2>1, <2>2, <2>3 DEF CheckReceipt, Goto, TypeOK, PlaceInv, Label
<1>6. ASSUME NEW w \in Worker, LoadFailed(w) PROVE TypeOK' /\ PlaceInv'
  <2>1. w \in Actor /\ pc[w] \notin {"idle", "next"}
    BY <1>6 DEF LoadFailed, Actor
  <2>2. work[w].p \in Publication /\ "markfailed" \in Label \ {"idle", "next"}
    BY <2>1, BusyWithOne DEF Label
  <2> QED
    BY <1>6, <2>1, <2>2, LoadStep DEF LoadFailed
<1>7. ASSUME NEW d \in Dispatcher, NEW p \in DispatcherPub, Select(d, p)
      PROVE  TypeOK' /\ PlaceInv'
  <2>1. d \in Actor /\ p \in Publication /\ "claiming" \in Label \ {"idle", "next"}
    BY PublicationAssumption DEF Actor, Label
  <2>2. todo[d] = {}
    BY <2>1 DEF PlaceInv
  <2> QED
    BY <1>7, <2>1, <2>2, LoadStep DEF Select
<1>8. ASSUME NEW d \in Dispatcher, ClaimSelected(d) PROVE TypeOK' /\ PlaceInv'
  <2>1. d \in Actor /\ pc[d] \notin {"idle", "next"} /\ work[d].old \in Row
    BY <1>8 DEF ClaimSelected, Actor, TypeOK, Work
  <2>2. Claimed(work[d].old, d) \in Row
    BY <2>1, ClaimedRow
  <2> QED
    BY <1>8, <2>1, <2>2, WriteStep DEF ClaimSelected
<1>9. ASSUME NEW d \in Dispatcher, Send(d) PROVE TypeOK' /\ PlaceInv'
  <2>1. d \in Actor /\ work[d].p \in Publication
    BY <1>9, BusyWithOne DEF Send, Actor
  <2> QED
    BY <1>9, <2>1 DEF Send, Goto, TypeOK, PlaceInv, Label
<1>10. ASSUME NEW d \in Dispatcher, LoadSent(d) PROVE TypeOK' /\ PlaceInv'
  <2>1. d \in Actor /\ pc[d] \notin {"idle", "next"}
    BY <1>10 DEF LoadSent, Actor
  <2>2. work[d].p \in Publication /\ {"publish", "failing"} \subseteq Label \ {"idle", "next"}
    BY <2>1, BusyWithOne DEF Label
  <2> QED
    BY <1>10, <2>1, <2>2, LoadStep DEF LoadSent
<1>11. ASSUME NEW d \in Dispatcher, LoadUnsent(d) PROVE TypeOK' /\ PlaceInv'
  <2>1. d \in Actor /\ pc[d] \notin {"idle", "next"}
    BY <1>11 DEF LoadUnsent, Actor
  <2>2. work[d].p \in Publication /\ "markfailed" \in Label \ {"idle", "next"}
    BY <2>1, BusyWithOne DEF Label
  <2>3. CASE HoldsLease(row[work[d].p], d)
    BY <1>11, <2>1, <2>2, <2>3, LoadStep DEF LoadUnsent
  <2>4. CASE ~HoldsLease(row[work[d].p], d)
    <3>1. /\ work' = [work EXCEPT ![d] = NoWork] /\ pc' = [pc EXCEPT ![d] = "idle"]
          /\ UNCHANGED <<row, event, outcome, todo, locks>>
      BY <1>11, <2>4 DEF LoadUnsent, Goto
    <3> QED
      BY <2>1, <3>1, NoWorkIsWork DEF TypeOK, PlaceInv, Label
  <2> QED
    BY <2>3, <2>4
<1>12. ASSUME NEW a \in Actor, PublishRow(a) PROVE TypeOK' /\ PlaceInv'
  <2>1. /\ pc[a] \notin {"idle", "next"} /\ work[a].old \in Row
        /\ work[a].after \in {"idle", "next", "sending"}
        /\ work[a].after = "sending" => a \in Dispatcher
    BY <1>12 DEF PublishRow, TypeOK, PlaceInv, Work
  <2>2. Released(work[a].old, "published") \in Row
    BY <2>1, ReleasedRow
  <2> QED
    BY <1>12, <2>1, <2>2, WriteStep DEF PublishRow
<1>13. ASSUME NEW a \in Actor, MarkFailed(a) PROVE TypeOK' /\ PlaceInv'
  <2>1. /\ pc[a] \notin {"idle", "next"} /\ work[a].old \in Row
        /\ work[a].after \in {"idle", "next", "sending"}
        /\ work[a].after = "sending" => a \in Dispatcher
    BY <1>13 DEF MarkFailed, TypeOK, PlaceInv, Work
  <2>2. Released(work[a].old, FailureStatus(work[a].old)) \in Row
    BY <2>1, ReleasedRow DEF FailureStatus
  <2> QED
    BY <1>13, <2>1, <2>2, WriteStep DEF MarkFailed
<1>14. ASSUME NEW a \in Actor, WriteEvent(a) PROVE TypeOK' /\ PlaceInv'
  BY <1>14 DEF WriteEvent, Goto, TypeOK, PlaceInv, Label
<1>15. ASSUME NEW a \in Actor, NEW lost \in BOOLEAN, Commit(a, lost)
       PROVE  TypeOK' /\ PlaceInv'
  <2> DEFINE kept == IF lost \/ work[a].after = "sending" THEN work[a].p ELSE Nobody
             named == [NoWork EXCEPT !.p = kept]
             label == IF lost THEN "failing" ELSE work[a].after
  <2>1. /\ work[a].p \in Publication /\ work[a].new \in Row /\ work[a].fanout \in BOOLEAN
        /\ work[a].verdict \in EventStatus /\ work[a].after \in {"idle", "next", "sending"}
        /\ EventOf[work[a].p] \in Event
    BY <1>15, BusyWithOne, EventAssumption DEF Commit, TypeOK, Work
  <2>2. named \in Work /\ named.p = kept /\ named.after = "idle"
    BY <2>1, NamedWork
  <2>3. row' \in [Publication -> Row] /\ event' \in [Event -> EventStatus]
    BY <1>15, <2>1 DEF Commit, TypeOK
  <2>4. receipt' \subseteq Publication /\ delivered' \in [Publication -> Nat]
    BY <1>15, <2>1 DEF Commit, Deliver, TypeOK
  <2>5. /\ work' = [work EXCEPT ![a] = named]
        /\ pc' = [pc EXCEPT ![a] = label]
        /\ UNCHANGED <<todo, stream>>
    BY <1>15 DEF Commit, Goto
  <2>6. label \in Label /\ (kept = Nobody <=> label \in {"idle", "next"})
    BY <2>1, ActorAssumption DEF Label
  <2>7. work[a].p \notin todo[a] /\ Nobody \notin todo[a]
    BY ActorAssumption DEF TypeOK, PlaceInv
  <2>8. kept \notin todo[a]
    BY <2>7
  <2> HIDE DEF named, kept, label
  <2>9. TypeOK'
    BY <1>15, <2>2, <2>3, <2>4, <2>5, <2>6, UnlockTyped DEF Commit, TypeOK
  <2>10. PlaceInv'
    BY <2>2, <2>5, <2>6, <2>8 DEF TypeOK, PlaceInv
  <2> QED
    BY <2>9, <2>10
<1>16. ASSUME NEW a \in Actor, Fail(a) PROVE TypeOK' /\ PlaceInv'
  <2> DEFINE named == [NoWork EXCEPT !.p = work[a].p]
  <2>1. work[a].p \in Publication /\ work[a].p # Nobody
    BY <1>16, BusyWithOne, ActorAssumption DEF Fail
  <2>2. named \in Work /\ named.p = work[a].p /\ named.after = "idle"
    BY <2>1, NamedWork
  <2>3. /\ work' = [work EXCEPT ![a] = named] /\ pc' = [pc EXCEPT ![a] = "failing"]
        /\ UNCHANGED <<row, event, outcome, todo>>
    BY <1>16 DEF Fail, Goto
  <2> HIDE DEF named
  <2> QED
    BY <1>16, <2>1, <2>2, <2>3, UnlockTyped DEF Fail, TypeOK, PlaceInv, Label
<1>17. ASSUME NEW a \in Actor, Crash(a) PROVE TypeOK' /\ PlaceInv'
  BY <1>17, UnlockTyped, NoWorkIsWork DEF Crash, Goto, TypeOK, PlaceInv, Label
<1>18. ASSUME NEW p \in Publication, Consume(p) PROVE TypeOK' /\ PlaceInv'
  BY <1>18 DEF Consume, TypeOK, PlaceInv
<1>19. ASSUME NEW p \in Publication, Expire(p) PROVE TypeOK' /\ PlaceInv'
  <2>1. [row[p] EXCEPT !.lease = "expired"] \in Row
    BY DEF TypeOK, Row
  <2> QED
    BY <1>19, <2>1 DEF Expire, TypeOK, PlaceInv
<1> QED
  BY <1>1, <1>2, <1>3, <1>4, <1>5, <1>6, <1>7, <1>8, <1>9, <1>10, <1>11, <1>12, <1>13,
     <1>14, <1>15, <1>16, <1>17, <1>18, <1>19 DEF Next

\* Rows, events, locks and what sessions are busy with keep their types: a
\* session only ever writes the publication and the event it has loaded.
THEOREM OutboxTypeCorrect == Spec => []TypeOK
  BY InitPlace, NextPlace, PTL DEF Spec

-----------------------------------------------------------------------------
(* Two runs of the worker never hold one publication.                      *)

\* Everybody works on publications of consumers of his own.
OwnConsumers ==
  /\ \A w \in Worker : Holding(w) \subseteq WorkerPub
  /\ \A d \in Dispatcher : work[d].p \in DispatcherPub \cup {Nobody}
  /\ stream \subseteq DispatcherPub

\* What a run holds no claim query selects, unless a dispatcher has written it.
HeldInv ==
  \A w \in Worker : \A p \in Holding(w) \ DispatcherPub :
    row[p].status \notin {"pending", "failed"}

RunInv == OwnConsumers /\ HeldInv /\ OneRunPerPublication

LEMMA InitRun == Init => RunInv
<1> SUFFICES ASSUME Init PROVE RunInv
  OBVIOUS
<1>1. \A a \in Actor : Holding(a) = {} /\ work[a].p = Nobody
  BY NoWorkIsWork DEF Init, Holding
<1> QED
  BY <1>1 DEF Init, RunInv, OwnConsumers, HeldInv, OneRunPerPublication, Actor

\* A step by which a run only lets go of publications, and nobody makes
\* claimable what is still held.
LEMMA RunStep ==
  ASSUME RunInv, NEW a \in Actor,
         \A b \in Actor \ {a} : work'[b].p = work[b].p /\ todo'[b] = todo[b],
         a \in Worker => Holding(a)' \subseteq Holding(a),
         a \in Dispatcher => work'[a].p \in DispatcherPub \cup {Nobody},
         stream' \subseteq DispatcherPub,
         \A w \in Worker : \A p \in (Holding(w)' \cap Holding(w)) \ DispatcherPub :
           row'[p].status \notin {"pending", "failed"}
  PROVE  RunInv'
<1>1. \A w \in Worker : Holding(w)' \subseteq Holding(w)
  <2> SUFFICES ASSUME NEW w \in Worker PROVE Holding(w)' \subseteq Holding(w)
    OBVIOUS
  <2>1. CASE w = a
    BY <2>1
  <2>2. CASE w # a
    BY <2>2 DEF Holding, Actor
  <2> QED
    BY <2>1, <2>2
<1>2. OwnConsumers'
  <2>1. \A w \in Worker : Holding(w)' \subseteq WorkerPub
    BY <1>1 DEF RunInv, OwnConsumers
  <2>2. \A d \in Dispatcher : work'[d].p \in DispatcherPub \cup {Nobody}
    BY DEF RunInv, OwnConsumers, Actor
  <2> QED
    BY <2>1, <2>2 DEF OwnConsumers
<1>3. HeldInv'
  BY <1>1 DEF HeldInv
<1>4. OneRunPerPublication'
  BY <1>1 DEF RunInv, OneRunPerPublication
<1> QED
  BY <1>2, <1>3, <1>4 DEF RunInv

\* The same when no row changes and an actor keeps its publication or drops it.
LEMMA QuietStep ==
  ASSUME RunInv, NEW a \in Actor, UNCHANGED <<row, todo>>,
         \A b \in Actor \ {a} : work'[b].p = work[b].p,
         work'[a].p \in {work[a].p, Nobody},
         stream' \subseteq DispatcherPub
  PROVE  RunInv'
<1>1. a \in Worker => Holding(a)' \subseteq Holding(a)
  BY DEF Holding
<1>2. a \in Dispatcher => work'[a].p \in DispatcherPub \cup {Nobody}
  BY DEF RunInv, OwnConsumers
<1>3. \A w \in Worker : \A p \in (Holding(w)' \cap Holding(w)) \ DispatcherPub :
        row'[p].status \notin {"pending", "failed"}
  BY DEF RunInv, HeldInv
<1> QED
  BY <1>1, <1>2, <1>3, RunStep

\* A row is written by whoever holds its publication.
LEMMA QuietWrite ==
  ASSUME TypeOK, PlaceInv, RunInv, NEW a \in Actor, pc[a] \notin {"idle", "next"},
         NEW new \in Row, NEW after \in {"idle", "next", "sending"},
         WriteRow(a, new, after)
  PROVE  RunInv'
<1>1. work[a].p \in Publication
  BY BusyWithOne
<1>2. /\ \A b \in Actor \ {a} : work'[b] = work[b]
      /\ work'[a].p = work[a].p
      /\ UNCHANGED <<row, event, outcome, todo, eventHolder>>
  BY <1>1, WriteWork
<1> QED
  BY <1>2, QuietStep DEF RunInv, OwnConsumers, outcome

LEMMA NextRun == TypeOK /\ PlaceInv /\ RunInv /\ [Next]_vars => RunInv'
<1> SUFFICES ASSUME TypeOK, PlaceInv, RunInv, [Next]_vars PROVE RunInv'
  OBVIOUS
<1> USE DEF outcome
<1>0. stream \subseteq DispatcherPub
  BY DEF RunInv, OwnConsumers
<1>1. CASE UNCHANGED vars
  BY <1>1 DEF vars, RunInv, OwnConsumers, HeldInv, OneRunPerPublication, Holding
<1>2. ASSUME NEW w \in Worker, NEW batch \in SUBSET WorkerPub \ {{}}, Claim(w, batch)
      PROVE  RunInv'
  <2>1. /\ \A p \in batch : row[p].status \in {"pending", "failed"}
        /\ \A p \in Publication : p \notin batch => row'[p] = row[p]
        /\ UNCHANGED <<work, stream>>
    BY <1>2 DEF Claim, Claimable
  <2>2. \A p \in batch : row'[p].status = "claimed"
    <3> SUFFICES ASSUME NEW p \in batch PROVE row'[p].status = "claimed"
      OBVIOUS
    <3>1. p \in Publication /\ w \in Actor
      BY PublicationAssumption DEF Actor
    <3>2. row'[p] = Claimed(row[p], w) /\ row[p] \in Row
      BY <1>2, <3>1 DEF Claim, TypeOK
    <3> QED
      BY <3>1, <3>2, ClaimedRow
  <2>3. Holding(w)' = batch
    BY <1>2, NoWorkIsWork DEF Claim, Holding, PlaceInv, TypeOK, Actor
  <2>4. \A v \in Worker \ {w} : Holding(v)' = Holding(v)
    BY <1>2 DEF Claim, Holding, TypeOK, Actor
  <2>5. \A v \in Worker \ {w} : Holding(v) \cap batch \subseteq DispatcherPub
    BY <2>1 DEF RunInv, HeldInv
  <2>6. OwnConsumers'
    BY <2>1, <2>3, <2>4 DEF RunInv, OwnConsumers
  <2>7. HeldInv'
    <3> SUFFICES ASSUME NEW v \in Worker, NEW p \in Holding(v)' \ DispatcherPub
                 PROVE  row'[p].status \notin {"pending", "failed"}
      BY DEF HeldInv
    <3>1. CASE v = w
      BY <2>2, <2>3, <3>1
    <3>2. CASE v # w
      <4>1. p \in Holding(v) /\ p \notin batch /\ p \in Publication
        BY <2>4, <2>5, <3>2, PublicationAssumption DEF RunInv, OwnConsumers
      <4> QED
        BY <2>1, <4>1 DEF RunInv, HeldInv
    <3> QED
      BY <3>1, <3>2
  <2>8. OneRunPerPublication'
    BY <2>3, <2>4, <2>5 DEF RunInv, OneRunPerPublication
  <2> QED
    BY <2>6, <2>7, <2>8 DEF RunInv
<1>3. ASSUME NEW w \in Worker, NEW p \in WorkerPub, Load(w, p)
      PROVE  RunInv'
  <2>1. w \in Actor \ Dispatcher /\ p \in Publication
    BY PublicationAssumption, ActorAssumption DEF Actor
  <2>2. work' \in [Actor -> Work] /\ work'[w].p = p
        /\ \A b \in Actor \ {w} : work'[b] = work[b]
    BY <1>3, <2>1, LoadWork DEF Load
  <2>3. /\ \A b \in Actor \ {w} : todo'[b] = todo[b]
        /\ Holding(w)' \subseteq Holding(w)
        /\ UNCHANGED <<row, stream>>
    BY <1>3, <2>1, <2>2, ActorAssumption DEF Load, TypeOK, Holding
  <2>4. \A v \in Worker : \A q \in (Holding(v)' \cap Holding(v)) \ DispatcherPub :
          row'[q].status \notin {"pending", "failed"}
    BY <2>3 DEF RunInv, HeldInv
  <2> QED
    BY <1>0, <2>1, <2>2, <2>3, <2>4, RunStep
<1>4. ASSUME NEW w \in Worker, EndRun(w) PROVE RunInv'
  BY <1>0, <1>4, QuietStep DEF EndRun, Actor
<1>5. ASSUME NEW w \in Worker, CheckReceipt(w) PROVE RunInv'
  <2>1. w \in Actor /\ work[w] \in Work
    BY DEF Actor, TypeOK
  <2>2. /\ work'[w].p = work[w].p
        /\ \A b \in Actor \ {w} : work'[b] = work[b]
        /\ UNCHANGED <<row, todo, stream>>
    BY <1>5, <2>1 DEF CheckReceipt, TypeOK, Work
  <2> QED
    BY <1>0, <2>1, <2>2, QuietStep
<1>6. ASSUME NEW w \in Worker, LoadFailed(w) PROVE RunInv'
  <2>1. w \in Actor /\ work[w].p \in Publication
    BY <1>6, BusyWithOne DEF LoadFailed, Actor
  <2>2. work'[w].p = work[w].p /\ \A b \in Actor \ {w} : work'[b] = work[b]
    BY <1>6, <2>1, LoadWork DEF LoadFailed
  <2> QED
    BY <1>0, <1>6, <2>1, <2>2, QuietStep DEF LoadFailed
<1>7. ASSUME NEW d \in Dispatcher, NEW p \in DispatcherPub, Select(d, p)
      PROVE  RunInv'
  <2>1. d \in Actor \ Worker /\ p \in Publication
    BY PublicationAssumption, ActorAssumption DEF Actor
  <2>2. work'[d].p = p /\ \A b \in Actor \ {d} : work'[b] = work[b]
    BY <1>7, <2>1, LoadWork DEF Select
  <2>3. \A v \in Worker : \A q \in (Holding(v)' \cap Holding(v)) \ DispatcherPub :
          row'[q].status \notin {"pending", "failed"}
    BY <1>7 DEF Select, RunInv, HeldInv
  <2> QED
    BY <1>0, <1>7, <2>1, <2>2, <2>3, RunStep DEF Select
<1>8. ASSUME NEW d \in Dispatcher, ClaimSelected(d) PROVE RunInv'
  <2>1. d \in Actor /\ pc[d] \notin {"idle", "next"} /\ work[d].old \in Row
    BY <1>8 DEF ClaimSelected, Actor, TypeOK, Work
  <2> QED
    BY <1>8, <2>1, ClaimedRow, QuietWrite DEF ClaimSelected
<1>9. ASSUME NEW d \in Dispatcher, Send(d) PROVE RunInv'
  <2>1. d \in Actor /\ work[d].p \in Publication /\ work[d].p \in DispatcherPub \cup {Nobody}
    BY <1>9, BusyWithOne DEF Send, Actor, RunInv, OwnConsumers
  <2>2. stream' \subseteq DispatcherPub
    BY <1>0, <1>9, <2>1, ActorAssumption DEF Send
  <2> QED
    BY <1>9, <2>1, <2>2, QuietStep DEF Send
<1>10. ASSUME NEW d \in Dispatcher, LoadSent(d) PROVE RunInv'
  <2>1. d \in Actor /\ work[d].p \in Publication
    BY <1>10, BusyWithOne DEF LoadSent, Actor
  <2>2. work'[d].p = work[d].p /\ \A b \in Actor \ {d} : work'[b] = work[b]
    BY <1>10, <2>1, LoadWork DEF LoadSent
  <2> QED
    BY <1>0, <1>10, <2>1, <2>2, QuietStep DEF LoadSent
<1>11. ASSUME NEW d \in Dispatcher, LoadUnsent(d) PROVE RunInv'
  <2>1. d \in Actor /\ work[d].p \in Publication
    BY <1>11, BusyWithOne DEF LoadUnsent, Actor
  <2>2. work'[d].p \in {work[d].p, Nobody} /\ \A b \in Actor \ {d} : work'[b] = work[b]
    <3>1. CASE LoadInto(d, work[d].p)
      BY <2>1, <3>1, LoadWork
    <3>2. CASE work' = [work EXCEPT ![d] = NoWork]
      BY <2>1, <3>2, NoWorkIsWork DEF TypeOK
    <3> QED
      BY <1>11, <3>1, <3>2 DEF LoadUnsent
  <2> QED
    BY <1>0, <1>11, <2>1, <2>2, QuietStep DEF LoadUnsent
<1>12. ASSUME NEW a \in Actor, PublishRow(a) PROVE RunInv'
  <2>1. /\ pc[a] \notin {"idle", "next"} /\ work[a].old \in Row
        /\ work[a].after \in {"idle", "next", "sending"}
    BY <1>12 DEF PublishRow, TypeOK, Work
  <2> QED
    BY <1>12, <2>1, ReleasedRow, QuietWrite DEF PublishRow
<1>13. ASSUME NEW a \in Actor, MarkFailed(a) PROVE RunInv'
  <2>1. /\ pc[a] \notin {"idle", "next"} /\ work[a].old \in Row
        /\ work[a].after \in {"idle", "next", "sending"}
    BY <1>13 DEF MarkFailed, TypeOK, Work
  <2>2. Released(work[a].old, FailureStatus(work[a].old)) \in Row
    BY <2>1, ReleasedRow DEF FailureStatus
  <2> QED
    BY <1>13, <2>1, <2>2, QuietWrite DEF MarkFailed
<1>14. ASSUME NEW a \in Actor, WriteEvent(a) PROVE RunInv'
  BY <1>0, <1>14, QuietStep DEF WriteEvent
<1>15. ASSUME NEW a \in Actor, NEW lost \in BOOLEAN, Commit(a, lost)
       PROVE  RunInv'
  <2> DEFINE p == work[a].p
             kept == IF lost \/ work[a].after = "sending" THEN p ELSE Nobody
  <2>1. p \in Publication
    BY <1>15, BusyWithOne DEF Commit
  <2>2. /\ work'[a].p = kept
        /\ \A b \in Actor \ {a} : work'[b] = work[b]
    <3> DEFINE named == [NoWork EXCEPT !.p = kept]
    <3>1. named.p = kept
      BY <2>1, NamedWork
    <3>2. work' = [work EXCEPT ![a] = named]
      BY <1>15 DEF Commit
    <3> HIDE DEF named, kept
    <3> QED
      BY <3>1, <3>2 DEF TypeOK
  <2>3. /\ row' = [row EXCEPT ![p] = work[a].new]
        /\ UNCHANGED <<todo, stream>>
        /\ lost => work[a].new.status = "published"
    BY <1>15 DEF Commit
  <2>4. \A v \in Worker : \A q \in (Holding(v)' \cap Holding(v)) \ DispatcherPub :
          row'[q].status \notin {"pending", "failed"}
    <3> SUFFICES ASSUME NEW v \in Worker, NEW q \in Holding(v)', q \in Holding(v),
                        q \notin DispatcherPub
                 PROVE  row'[q].status \notin {"pending", "failed"}
      OBVIOUS
    <3>1. q \in Publication /\ row[q].status \notin {"pending", "failed"}
      BY PublicationAssumption DEF RunInv, OwnConsumers, HeldInv
    <3>2. CASE q # p
      BY <2>3, <3>1, <3>2 DEF TypeOK
    <3>3. CASE q = p /\ lost
      BY <2>1, <2>3, <3>3 DEF TypeOK
    <3>4. CASE q = p /\ ~lost
      \* The holder of q has just finished it, and nobody else holds it.
      <4>1. CASE a \in Worker
        <5>1. work[a].after # "sending" /\ p \in Holding(a) /\ p # Nobody
          BY <2>1, <4>1, ActorAssumption DEF PlaceInv, Holding
        <5>2. v = a
          BY <3>4, <4>1, <5>1 DEF RunInv, OneRunPerPublication
        <5>3. p \notin Holding(a)'
          BY <2>2, <2>3, <3>4, <5>1 DEF Holding, PlaceInv
        <5> QED
          BY <3>4, <5>2, <5>3
      <4>2. CASE a \in Dispatcher
        BY <2>1, <3>4, <4>2, ActorAssumption DEF RunInv, OwnConsumers
      <4> QED
        BY <4>1, <4>2 DEF Actor
    <3> QED
      BY <3>2, <3>3, <3>4
  <2>5. kept \in {p, Nobody}
    OBVIOUS
  <2> HIDE DEF kept
  <2>6. a \in Worker => Holding(a)' \subseteq Holding(a)
    BY <2>2, <2>3, <2>5 DEF Holding
  <2>7. a \in Dispatcher => work'[a].p \in DispatcherPub \cup {Nobody}
    BY <2>2, <2>5 DEF RunInv, OwnConsumers
  <2> QED
    BY <1>0, <2>2, <2>3, <2>4, <2>6, <2>7, RunStep
<1>16. ASSUME NEW a \in Actor, Fail(a) PROVE RunInv'
  <2> DEFINE named == [NoWork EXCEPT !.p = work[a].p]
  <2>1. named.p = work[a].p
    BY <1>16, BusyWithOne, NamedWork DEF Fail
  <2>2. work' = [work EXCEPT ![a] = named] /\ UNCHANGED <<row, event, outcome, todo>>
    BY <1>16 DEF Fail
  <2> HIDE DEF named
  <2>3. work'[a].p = work[a].p /\ \A b \in Actor \ {a} : work'[b] = work[b]
    BY <2>1, <2>2 DEF TypeOK
  <2> QED
    BY <1>0, <2>2, <2>3, QuietStep
<1>17. ASSUME NEW a \in Actor, Crash(a) PROVE RunInv'
  <2>1. /\ work'[a].p = Nobody /\ todo'[a] = {}
        /\ \A b \in Actor \ {a} : work'[b] = work[b] /\ todo'[b] = todo[b]
        /\ UNCHANGED <<row, stream>>
    BY <1>17, NoWorkIsWork DEF Crash, TypeOK
  <2>2. Holding(a)' = {}
    BY <2>1 DEF Holding
  <2>3. \A v \in Worker : \A q \in (Holding(v)' \cap Holding(v)) \ DispatcherPub :
          row'[q].status \notin {"pending", "failed"}
    BY <2>1 DEF RunInv, HeldInv
  <2> QED
    BY <1>0, <2>1, <2>2, <2>3, RunStep
<1>18. ASSUME NEW p \in Publication, Consume(p) PROVE RunInv'
  BY <1>18 DEF Consume, RunInv, OwnConsumers, HeldInv, OneRunPerPublication, Holding
<1>19. ASSUME NEW p \in Publication, Expire(p) PROVE RunInv'
  <2>1. \A q \in Publication : row'[q].status = row[q].status
    BY <1>19 DEF Expire, TypeOK, Row
  <2>2. \A w \in Worker : Holding(w) \subseteq Publication /\ Holding(w)' = Holding(w)
    BY <1>19, PublicationAssumption DEF Expire, RunInv, OwnConsumers, Holding
  <2>3. UNCHANGED <<work, stream>>
    BY <1>19 DEF Expire
  <2> QED
    BY <2>1, <2>2, <2>3 DEF RunInv, OwnConsumers, HeldInv, OneRunPerPublication
<1> QED
  BY <1>1, <1>2, <1>3, <1>4, <1>5, <1>6, <1>7, <1>8, <1>9, <1>10, <1>11, <1>12, <1>13,
     <1>14, <1>15, <1>16, <1>17, <1>18, <1>19 DEF Next

\* However many runs of the worker there are, whatever expires or crashes, no
\* two of them ever work on one publication, unless the dispatcher serves it as
\* well: the claim query takes only rows nobody has claimed, under their locks.
THEOREM RunsKeptApart == Spec => []OneRunPerPublication
<1>1. RunInv => OneRunPerPublication
  BY DEF RunInv
<1> QED
  BY <1>1, InitPlace, NextPlace, InitRun, NextRun, PTL DEF Spec

-----------------------------------------------------------------------------
(* Every fan-out is committed once, and what is called published is served. *)

\* Whoever has written a publication keeps its row locked until he commits.
LockInv == \A a \in Actor : pc[a] \in {"event", "commit"} => rowHolder[work[a].p] = a

LEMMA InitLock == Init => LockInv
  BY DEF Init, LockInv

LEMMA NextLock == TypeOK /\ PlaceInv /\ LockInv /\ [Next]_vars => LockInv'
<1> SUFFICES ASSUME TypeOK, PlaceInv, LockInv, [Next]_vars PROVE LockInv'
  OBVIOUS
<1> USE DEF locks
<1>1. CASE UNCHANGED vars
  BY <1>1 DEF vars, LockInv
\* Writing a row takes its lock, which nobody had.
<1>2. ASSUME NEW a \in Actor, pc[a] \notin {"idle", "next"}, NEW new \in Row,
             NEW after \in {"idle", "next", "sending"}, WriteRow(a, new, after)
      PROVE  LockInv'
  <2>1. work[a].p \in Publication
    BY <1>2, BusyWithOne
  <2>2. \A b \in Actor \ {a} : work'[b] = work[b] /\ pc'[b] = pc[b]
    BY <1>2, <2>1, WriteWork
  <2>3. work'[a].p = work[a].p
    BY <1>2, <2>1, WriteWork
  <2>4. rowHolder[work[a].p] = Nobody /\ rowHolder' = [rowHolder EXCEPT ![work[a].p] = a]
    BY <1>2, Zenon DEF WriteRow
  <2>5. rowHolder'[work'[a].p] = a
    BY <2>1, <2>3, <2>4 DEF TypeOK
  <2>6. ASSUME NEW b \in Actor \ {a}, pc'[b] \in {"event", "commit"}
        PROVE  rowHolder'[work'[b].p] = b
    <3>1. rowHolder[work[b].p] = b
      BY <2>2, <2>6 DEF LockInv
    <3>2. work[b].p # work[a].p
      BY <2>4, <3>1, ActorAssumption
    <3> QED
      BY <2>2, <2>4, <3>1, <3>2
  <2> QED
    BY <2>5, <2>6 DEF LockInv
<1>3. ASSUME NEW a \in Actor, NEW label \in Label \ {"event", "commit"}, Goto(a, label),
             \A b \in Actor \ {a} : work'[b] = work[b],
             rowHolder' = rowHolder \/ Unlock(a)
      PROVE  LockInv'
  <2>1. \A b \in Actor \ {a} : pc'[b] = pc[b]
    BY <1>3 DEF Goto, TypeOK
  <2>2. pc'[a] = label
    BY <1>3 DEF Goto, TypeOK
  <2>3. ASSUME NEW b \in Actor \ {a}, pc'[b] \in {"event", "commit"}
        PROVE  rowHolder'[work'[b].p] = b
    <3>1. pc[b] \in {"event", "commit"} /\ work'[b] = work[b]
      BY <1>3, <2>1, <2>3
    <3>2. work[b].p \in Publication /\ rowHolder[work[b].p] = b
      BY <3>1, BusyWithOne DEF LockInv
    <3> QED
      BY <1>3, <3>1, <3>2 DEF Unlock
  <2> QED
    BY <2>2, <2>3 DEF LockInv
<1>4. ASSUME NEW a \in Actor, NEW p \in Publication, LoadInto(a, p),
             NEW label \in Label \ {"event", "commit"}, Goto(a, label), UNCHANGED rowHolder
      PROVE  LockInv'
  BY <1>3, <1>4, LoadWork
<1>5. ASSUME NEW w \in Worker, NEW batch \in SUBSET WorkerPub \ {{}}, Claim(w, batch)
      PROVE  LockInv'
  <2>1. Goto(w, "next") /\ "next" \in Label \ {"event", "commit"} /\ w \in Actor
    BY <1>5 DEF Claim, Label, Actor
  <2> QED
    BY <1>3, <1>5, <2>1 DEF Claim
<1>6. ASSUME NEW w \in Worker, NEW p \in WorkerPub, Load(w, p) PROVE LockInv'
  <2>1. w \in Actor /\ p \in Publication /\ {"receipt", "failing"} \subseteq Label
    BY PublicationAssumption DEF Label, Actor
  <2> QED
    BY <1>4, <1>6, <2>1 DEF Load
<1>7. ASSUME NEW w \in Worker, EndRun(w) PROVE LockInv'
  <2>1. Goto(w, "idle") /\ "idle" \in Label \ {"event", "commit"} /\ w \in Actor
    BY <1>7 DEF EndRun, Label, Actor
  <2> QED
    BY <1>3, <1>7, <2>1 DEF EndRun
<1>8. ASSUME NEW w \in Worker, CheckReceipt(w) PROVE LockInv'
  <2>1. Goto(w, "publish") /\ "publish" \in Label \ {"event", "commit"} /\ w \in Actor
    BY <1>8 DEF CheckReceipt, Label, Actor
  <2>2. \A b \in Actor \ {w} : work'[b] = work[b]
    BY <1>8 DEF CheckReceipt, TypeOK
  <2> QED
    BY <1>3, <1>8, <2>1, <2>2 DEF CheckReceipt
<1>9. ASSUME NEW w \in Worker, LoadFailed(w) PROVE LockInv'
  <2>1. w \in Actor /\ work[w].p \in Publication /\ "markfailed" \in Label
    BY <1>9, BusyWithOne DEF LoadFailed, Label, Actor
  <2> QED
    BY <1>4, <1>9, <2>1 DEF LoadFailed
<1>10. ASSUME NEW d \in Dispatcher, NEW p \in DispatcherPub, Select(d, p) PROVE LockInv'
  <2>1. d \in Actor /\ p \in Publication /\ "claiming" \in Label
    BY PublicationAssumption DEF Label, Actor
  <2> QED
    BY <1>4, <1>10, <2>1 DEF Select
<1>11. ASSUME NEW d \in Dispatcher, ClaimSelected(d) PROVE LockInv'
  <2>1. d \in Actor /\ pc[d] \notin {"idle", "next"} /\ Claimed(work[d].old, d) \in Row
    BY <1>11, ClaimedRow DEF ClaimSelected, Actor, TypeOK, Work
  <2> QED
    BY <1>2, <1>11, <2>1 DEF ClaimSelected
<1>12. ASSUME NEW d \in Dispatcher, Send(d) PROVE LockInv'
  <2>1. d \in Actor /\ {"loading", "failing"} \subseteq Label
    BY DEF Label, Actor
  <2> QED
    BY <1>3, <1>12, <2>1 DEF Send
<1>13. ASSUME NEW d \in Dispatcher, LoadSent(d) PROVE LockInv'
  <2>1. d \in Actor /\ work[d].p \in Publication /\ {"publish", "failing"} \subseteq Label
    BY <1>13, BusyWithOne DEF LoadSent, Label, Actor
  <2> QED
    BY <1>4, <1>13, <2>1 DEF LoadSent
<1>14. ASSUME NEW d \in Dispatcher, LoadUnsent(d) PROVE LockInv'
  <2>1. d \in Actor /\ work[d].p \in Publication /\ {"markfailed", "idle"} \subseteq Label
    BY <1>14, BusyWithOne DEF LoadUnsent, Label, Actor
  <2>2. CASE HoldsLease(row[work[d].p], d)
    BY <1>4, <1>14, <2>1, <2>2 DEF LoadUnsent
  <2>3. CASE ~HoldsLease(row[work[d].p], d)
    BY <1>3, <1>14, <2>1, <2>3 DEF LoadUnsent, TypeOK
  <2> QED
    BY <2>2, <2>3
<1>15. ASSUME NEW a \in Actor, PublishRow(a) PROVE LockInv'
  <2>1. /\ pc[a] \notin {"idle", "next"} /\ work[a].after \in {"idle", "next", "sending"}
        /\ Released(work[a].old, "published") \in Row
    BY <1>15, ReleasedRow DEF PublishRow, TypeOK, Work
  <2> QED
    BY <1>2, <1>15, <2>1 DEF PublishRow
<1>16. ASSUME NEW a \in Actor, MarkFailed(a) PROVE LockInv'
  <2>1. /\ pc[a] \notin {"idle", "next"} /\ work[a].after \in {"idle", "next", "sending"}
        /\ Released(work[a].old, FailureStatus(work[a].old)) \in Row
    BY <1>16, ReleasedRow DEF MarkFailed, FailureStatus, TypeOK, Work
  <2> QED
    BY <1>2, <1>16, <2>1 DEF MarkFailed
<1>17. ASSUME NEW a \in Actor, WriteEvent(a) PROVE LockInv'
  BY <1>17 DEF WriteEvent, Goto, LockInv, TypeOK
<1>18. ASSUME NEW a \in Actor, NEW lost \in BOOLEAN, Commit(a, lost) PROVE LockInv'
  <2> DEFINE label == IF lost THEN "failing" ELSE work[a].after
  <2>1. label \in Label \ {"event", "commit"}
    BY DEF Label, TypeOK, Work
  <2>2. Goto(a, label) /\ Unlock(a)
    BY <1>18 DEF Commit
  <2>3. \A b \in Actor \ {a} : work'[b] = work[b]
    BY <1>18, Zenon DEF Commit, TypeOK
  <2> HIDE DEF label
  <2> QED
    BY <1>3, <2>1, <2>2, <2>3
<1>19. ASSUME NEW a \in Actor, Fail(a) \/ Crash(a) PROVE LockInv'
  <2>1. \E label \in {"failing", "idle"} : Goto(a, label)
    BY <1>19 DEF Fail, Crash
  <2>2. Unlock(a) /\ \A b \in Actor \ {a} : work'[b] = work[b]
    BY <1>19 DEF Fail, Crash, TypeOK
  <2> QED
    BY <1>3, <2>1, <2>2 DEF Label
<1>20. ASSUME NEW p \in Publication, Consume(p) \/ Expire(p) PROVE LockInv'
  BY <1>20 DEF Consume, Expire, LockInv
<1> QED
  BY <1>1, <1>5, <1>6, <1>7, <1>8, <1>9, <1>10, <1>11, <1>12, <1>13, <1>14, <1>15, <1>16,
     <1>17, <1>18, <1>19, <1>20 DEF Next

\* A commit of a that takes effect leaves q served.
WillServe(a, q) == Served(q) \/ (q = work[a].p /\ work[a].fanout)

\* What each actor has in hand: only a worker fans out; a transaction about to
\* fan out has found nothing delivered, one about to publish will have served the
\* publication, and one about to call the event published all its publications.
ActorInv(a) ==
  /\ work[a].fanout => a \in Worker /\ pc[a] \in {"publish", "event", "commit"}
  /\ pc[a] = "loading" => work[a].p \in stream
  /\ pc[a] = "publish" =>
       IF a \in Worker THEN work[a].fanout \/ work[a].p \in receipt
       ELSE work[a].p \in stream
  /\ pc[a] \in {"event", "commit"} =>
       /\ work[a].fanout => delivered[work[a].p] = 0
       /\ work[a].new.status = "published" => WillServe(a, work[a].p)
       /\ work[a].verdict = "published" =>
            \A q \in Publication : EventOf[q] = EventOf[work[a].p] => WillServe(a, q)

\* A fan-out and its receipt are committed together, and a receipt stands for
\* a fan-out or for a message JetStream has accepted.
ReceiptInv ==
  /\ \A p \in Publication : delivered[p] = 0 \/ (delivered[p] = 1 /\ p \in receipt)
  /\ \A p \in receipt : Served(p)

OutcomeInv == ReceiptInv /\ PublishedIsServed /\ \A a \in Actor : ActorInv(a)


\* An event is derived to be published only from publications that all are.
LEMMA DerivedPublished ==
  ASSUME NEW p \in Publication, NEW r, Derived(p, r) = "published"
  PROVE  \A q \in Publication : EventOf[q] = EventOf[p] =>
           IF q = p THEN r.status = "published" ELSE row[q].status = "published"
<1> DEFINE statuses == {IF q = p THEN r.status ELSE row[q].status :
                          q \in {q \in Publication : EventOf[q] = EventOf[p]}}
<1>1. statuses = {"published"}
  <2>1. Aggregate(statuses) = "published"
    BY DEF Derived
  <2> HIDE DEF statuses
  <2> QED
    BY <2>1 DEF Aggregate
<1> QED
  BY <1>1

LEMMA InitOutcome == Init => OutcomeInv
<1> SUFFICES ASSUME Init PROVE OutcomeInv
  OBVIOUS
<1>1. ReceiptInv
  BY DEF Init, ReceiptInv
<1>2. PublishedIsServed
  BY NewRowIsRow DEF Init, PublishedIsServed
<1>3. \A a \in Actor : ActorInv(a)
  BY NoWorkIsWork DEF Init, ActorInv
<1> QED
  BY <1>1, <1>2, <1>3 DEF OutcomeInv

\* A step of one actor that commits nothing.
LEMMA HandStep ==
  ASSUME OutcomeInv, NEW a \in Actor,
         \A b \in Actor \ {a} : work'[b] = work[b] /\ pc'[b] = pc[b],
         UNCHANGED <<row, event, receipt, delivered>>,
         stream \subseteq stream',
         ActorInv(a)'
  PROVE  OutcomeInv'
<1>1. \A q : Served(q) => Served(q)'
  BY DEF Served
<1>2. ReceiptInv'
  BY DEF OutcomeInv, ReceiptInv, Served
<1>3. PublishedIsServed'
  BY <1>1 DEF OutcomeInv, PublishedIsServed
<1>4. ASSUME NEW b \in Actor \ {a} PROVE ActorInv(b)'
  <2>1. ActorInv(b) /\ \A q : WillServe(b, q) => WillServe(b, q)'
    BY <1>1 DEF OutcomeInv, WillServe
  <2> QED
    BY <2>1 DEF ActorInv
<1> QED
  BY <1>2, <1>3, <1>4 DEF OutcomeInv

\* A reader of a publication has nothing in hand.
LEMMA LoadHand ==
  ASSUME TypeOK, OutcomeInv, NEW a \in Actor, NEW p \in Publication,
         NEW label \in {"receipt", "claiming", "publish", "failing", "markfailed"},
         label = "publish" => a \notin Worker /\ p \in stream,
         LoadInto(a, p), Goto(a, label), UNCHANGED <<row, event, outcome>>
  PROVE  OutcomeInv'
<1>1. /\ \A b \in Actor \ {a} : work'[b] = work[b] /\ pc'[b] = pc[b]
      /\ work'[a].p = p /\ work'[a].fanout = FALSE /\ pc'[a] = label
  BY LoadWork DEF Goto, TypeOK
<1>2. ActorInv(a)'
  BY <1>1 DEF ActorInv, outcome
<1> QED
  BY <1>1, <1>2, HandStep DEF outcome

\* A write takes its verdict from rows whose publications are served.
LEMMA WriteHand ==
  ASSUME TypeOK, PlaceInv, OutcomeInv, NEW a \in Actor, pc[a] \notin {"idle", "next"},
         NEW new \in Row, NEW after \in {"idle", "next", "sending"},
         WriteRow(a, new, after),
         new.status = "published" => WillServe(a, work[a].p),
         work[a].fanout => a \in Worker /\ delivered[work[a].p] = 0
  PROVE  OutcomeInv'
<1> DEFINE p == work[a].p
<1>1. p \in Publication
  BY BusyWithOne
<1>2. /\ \A b \in Actor \ {a} : work'[b] = work[b] /\ pc'[b] = pc[b]
      /\ pc'[a] \in {"event", "commit"}
      /\ work'[a].p = p /\ work'[a].fanout = work[a].fanout
      /\ work'[a].new.status \in {row[p].status, new.status}
      /\ work'[a].verdict = Derived(p, work'[a].new)
      /\ UNCHANGED <<row, event, receipt, delivered, stream>>
  BY <1>1, WriteWork DEF outcome
<1>3. \A q : WillServe(a, q) => WillServe(a, q)'
  BY <1>2 DEF WillServe, Served
<1>4. \A q \in Publication : row[q].status = "published" => WillServe(a, q)
  BY DEF OutcomeInv, PublishedIsServed, WillServe
<1>5. work'[a].new.status = "published" => WillServe(a, p)
  BY <1>1, <1>2, <1>4
<1>6. work'[a].verdict = "published" =>
        \A q \in Publication : EventOf[q] = EventOf[p] => WillServe(a, q)
  <2> DEFINE r == work'[a].new
  <2> SUFFICES ASSUME Derived(p, r) = "published", NEW q \in Publication,
                      EventOf[q] = EventOf[p]
               PROVE  WillServe(a, q)
    BY <1>2
  <2>1. IF q = p THEN r.status = "published" ELSE row[q].status = "published"
    <3> HIDE DEF p, r
    <3> QED
      BY <1>1, DerivedPublished
  <2> QED
    BY <1>4, <1>5, <2>1
<1> HIDE DEF p
<1>7. ActorInv(a)'
  BY <1>2, <1>3, <1>5, <1>6 DEF ActorInv, p
<1> QED
  BY <1>2, <1>7, HandStep


\* A commit delivers what its session has in hand, and nobody else has it.
LEMMA CommitHand ==
  ASSUME TypeOK, PlaceInv, LockInv, OutcomeInv, NEW a \in Actor, NEW lost \in BOOLEAN,
         Commit(a, lost)
  PROVE  OutcomeInv'
<1> DEFINE p == work[a].p
           label == IF lost THEN "failing" ELSE work[a].after
<1>1. /\ p \in Publication /\ p # Nobody
      /\ pc[a] = "commit" /\ ActorInv(a)
      /\ work[a].after \in {"idle", "next", "sending"}
      /\ EventOf[p] \in Event
  BY BusyWithOne, ActorAssumption, EventAssumption DEF Commit, TypeOK, Work, OutcomeInv
<1>2. /\ row' = [row EXCEPT ![p] = work[a].new]
      /\ event' = [event EXCEPT ![EventOf[p]] =
           IF work[a].verdict # work[a].seen THEN work[a].verdict ELSE @]
      /\ pc' = [pc EXCEPT ![a] = label]
      /\ stream' = stream
  BY DEF Commit, Goto
<1>3. work'[a].fanout = FALSE /\ \A b \in Actor \ {a} : work'[b] = work[b]
  <2> DEFINE kept == IF lost \/ work[a].after = "sending" THEN p ELSE Nobody
             named == [NoWork EXCEPT !.p = kept]
  <2>1. named.fanout = FALSE
    BY <1>1, NamedWork
  <2>2. work' = [work EXCEPT ![a] = named]
    BY DEF Commit
  <2> HIDE DEF named, kept
  <2> QED
    BY <2>1, <2>2 DEF TypeOK
<1>4. /\ receipt' \subseteq receipt \cup {p} /\ receipt \subseteq receipt'
      /\ receipt' # receipt => work[a].fanout
      /\ work[a].fanout => delivered'[p] = 1 /\ p \in receipt'
      /\ ~work[a].fanout => delivered'[p] = delivered[p]
      /\ \A q \in Publication : q # p => delivered'[q] = delivered[q]
  <2>1. CASE ~work[a].fanout
    BY <2>1 DEF Commit, Deliver
  <2>2. CASE work[a].fanout
    <3>1. delivered[p] = 0
      BY <1>1, <2>2 DEF ActorInv
    <3>2. delivered' = [delivered EXCEPT ![p] = @ + 1] /\ receipt' = receipt \cup {p}
      BY <2>2 DEF Commit, Deliver
    <3> QED
      BY <1>1, <2>2, <3>1, <3>2 DEF TypeOK
  <2> QED
    BY <2>1, <2>2
<1> HIDE DEF p, label
<1>5. \A q \in Publication : Served(q) => Served(q)'
  BY <1>2, <1>4 DEF Served
<1>6. \A q \in Publication : WillServe(a, q) => Served(q)'
  BY <1>4, <1>5 DEF WillServe, Served, p
<1>7. ReceiptInv'
  <2>1. \A q \in Publication : delivered'[q] = 0 \/ (delivered'[q] = 1 /\ q \in receipt')
    BY <1>4 DEF OutcomeInv, ReceiptInv
  <2>2. ASSUME NEW q \in receipt' PROVE Served(q)'
    <3>1. CASE q \in receipt
      BY <1>5, <3>1 DEF TypeOK, OutcomeInv, ReceiptInv
    <3>2. CASE q \notin receipt
      BY <1>4, <3>2 DEF Served
    <3> QED
      BY <3>1, <3>2
  <2> QED
    BY <2>1, <2>2 DEF ReceiptInv
<1>8. PublishedIsServed'
  <2>1. ASSUME NEW q \in Publication, row'[q].status = "published" PROVE Served(q)'
    <3>1. CASE q = p
      BY <1>1, <1>2, <1>6, <2>1, <3>1 DEF TypeOK, ActorInv, p
    <3>2. CASE q # p
      BY <1>2, <1>5, <2>1, <3>2 DEF TypeOK, OutcomeInv, PublishedIsServed
    <3> QED
      BY <3>1, <3>2
  <2>2. ASSUME NEW e \in Event, event'[e] = "published",
               NEW q \in Publication, EventOf[q] = e
        PROVE  Served(q)'
    <3>1. CASE event[e] = "published"
      BY <1>5, <2>2, <3>1 DEF OutcomeInv, PublishedIsServed
    <3>2. CASE event[e] # "published"
      <4>1. e = EventOf[p] /\ work[a].verdict = "published"
        BY <1>1, <1>2, <2>2, <3>2 DEF TypeOK
      <4> QED
        BY <1>1, <1>6, <2>2, <4>1 DEF ActorInv, p
    <3> QED
      BY <3>1, <3>2
  <2> QED
    BY <2>1, <2>2 DEF PublishedIsServed
<1>9. ASSUME NEW b \in Actor PROVE ActorInv(b)'
  <2>1. CASE b = a
    <3>1. pc'[a] \in {"failing", "idle", "next", "sending"}
      BY <1>1, <1>2 DEF TypeOK, label
    <3> QED
      BY <1>3, <2>1, <3>1 DEF ActorInv
  <2>2. CASE b # a
    <3>1. /\ work'[b] = work[b] /\ pc'[b] = pc[b] /\ ActorInv(b)
          /\ pc[b] \in {"event", "commit"} => work[b].p \in Publication
      BY <1>2, <1>3, <2>2, BusyWithOne DEF OutcomeInv, TypeOK
    <3>2. \A q \in Publication : WillServe(b, q) => WillServe(b, q)'
      BY <1>5, <3>1 DEF WillServe
    <3>3. pc[b] \in {"event", "commit"} /\ work[b].fanout => delivered'[work[b].p] = 0
      <4> SUFFICES ASSUME pc[b] \in {"event", "commit"}, work[b].fanout
                   PROVE  delivered'[work[b].p] = 0
        OBVIOUS
      <4>1. work[b].p # p
        BY <1>1, <2>2 DEF LockInv, p
      <4> QED
        BY <1>4, <3>1, <4>1 DEF ActorInv
    <3>4. /\ work[b].fanout => b \in Worker /\ pc[b] \in {"publish", "event", "commit"}
          /\ pc[b] = "loading" => work[b].p \in stream
          /\ pc[b] = "publish" =>
               IF b \in Worker THEN work[b].fanout \/ work[b].p \in receipt
               ELSE work[b].p \in stream
      BY <3>1, Zenon DEF ActorInv
    <3>5. pc[b] \in {"event", "commit"} =>
            /\ work[b].new.status = "published" => WillServe(b, work[b].p)'
            /\ work[b].verdict = "published" =>
                 \A q \in Publication : EventOf[q] = EventOf[work[b].p] => WillServe(b, q)'
      BY <3>1, <3>2 DEF ActorInv
    <3> QED
      BY <1>2, <1>4, <3>1, <3>3, <3>4, <3>5 DEF ActorInv
  <2> QED
    BY <2>1, <2>2
<1> QED
  BY <1>7, <1>8, <1>9 DEF OutcomeInv

LEMMA NextOutcome ==
  TypeOK /\ PlaceInv /\ LockInv /\ OutcomeInv /\ [Next]_vars => OutcomeInv'
<1> SUFFICES ASSUME TypeOK, PlaceInv, LockInv, OutcomeInv, [Next]_vars PROVE OutcomeInv'
  OBVIOUS
<1> USE DEF outcome
<1>0. DispatcherPub \subseteq Publication
  BY PublicationAssumption
<1>1. CASE UNCHANGED vars
  <2>1. ReceiptInv' /\ PublishedIsServed'
    BY <1>1 DEF vars, OutcomeInv, ReceiptInv, PublishedIsServed, Served
  <2>2. ASSUME NEW b \in Actor PROVE ActorInv(b)'
    <3>1. ActorInv(b) /\ \A q : WillServe(b, q) = WillServe(b, q)'
      BY <1>1 DEF vars, OutcomeInv, WillServe, Served
    <3> QED
      BY <1>1, <3>1 DEF vars, ActorInv
  <2> QED
    BY <2>1, <2>2 DEF OutcomeInv
<1>2. ASSUME NEW w \in Worker, NEW batch \in SUBSET WorkerPub \ {{}}, Claim(w, batch)
      PROVE  OutcomeInv'
  <2>1. \A q \in Publication : row'[q].status = "published" => row[q].status = "published"
    <3> SUFFICES ASSUME NEW q \in Publication, row'[q].status = "published"
                 PROVE  row[q].status = "published"
      OBVIOUS
    <3>1. row'[q] = IF q \in batch THEN Claimed(row[q], w) ELSE row[q]
      BY <1>2 DEF Claim
    <3>2. Claimed(row[q], w).status = "claimed"
      BY ClaimedRow DEF TypeOK, Actor
    <3> QED
      BY <3>1, <3>2
  <2>2. /\ UNCHANGED <<event, receipt, delivered, stream, work>>
        /\ pc' = [pc EXCEPT ![w] = "next"] /\ pc[w] = "idle"
    BY <1>2 DEF Claim, Goto
  <2>3. ReceiptInv'
    BY <2>2 DEF OutcomeInv, ReceiptInv, Served
  <2>4. PublishedIsServed'
    BY <2>1, <2>2 DEF OutcomeInv, PublishedIsServed, Served
  <2>5. ASSUME NEW b \in Actor PROVE ActorInv(b)'
    <3>1. CASE b = w
      BY <2>2, <3>1 DEF OutcomeInv, ActorInv, TypeOK
    <3>2. CASE b # w
      <4>1. pc'[b] = pc[b] /\ ActorInv(b) /\ \A q : WillServe(b, q) = WillServe(b, q)'
        BY <2>2, <3>2 DEF OutcomeInv, WillServe, Served, TypeOK
      <4> QED
        BY <2>2, <4>1 DEF ActorInv
    <3> QED
      BY <3>1, <3>2
  <2> QED
    BY <2>3, <2>4, <2>5 DEF OutcomeInv
<1>3. ASSUME NEW w \in Worker, NEW p \in WorkerPub, Load(w, p) PROVE OutcomeInv'
  <2> DEFINE label == IF HoldsLease(row[p], w) THEN "receipt" ELSE "failing"
  <2>1. /\ w \in Actor /\ p \in Publication
        /\ label \in {"receipt", "claiming", "publish", "failing", "markfailed"} \ {"publish"}
    BY PublicationAssumption DEF Actor
  <2>2. LoadInto(w, p) /\ Goto(w, label) /\ UNCHANGED <<row, event, outcome>>
    BY <1>3 DEF Load
  <2> HIDE DEF label
  <2> QED
    BY <2>1, <2>2, LoadHand
<1>4. ASSUME NEW w \in Worker, EndRun(w) PROVE OutcomeInv'
  <2>1. /\ w \in Actor /\ pc' = [pc EXCEPT ![w] = "idle"] /\ pc[w] = "next"
        /\ UNCHANGED <<row, event, receipt, delivered, stream, work>>
    BY <1>4 DEF EndRun, Goto, Actor
  <2>2. ActorInv(w)'
    BY <2>1 DEF OutcomeInv, ActorInv, TypeOK
  <2> QED
    BY <2>1, <2>2, HandStep DEF TypeOK
<1>5. ASSUME NEW w \in Worker, CheckReceipt(w) PROVE OutcomeInv'
  <2>1. w \in Actor /\ work[w] \in Work
    BY DEF Actor, TypeOK
  <2>2. /\ work'[w].p = work[w].p /\ (work'[w].fanout <=> work[w].p \notin receipt)
        /\ \A b \in Actor \ {w} : work'[b] = work[b] /\ pc'[b] = pc[b]
        /\ pc'[w] = "publish"
        /\ UNCHANGED <<row, event, receipt, delivered, stream>>
    BY <1>5, <2>1 DEF CheckReceipt, Goto, TypeOK, Work
  <2>3. ActorInv(w)'
    BY <2>2 DEF ActorInv
  <2> QED
    BY <2>1, <2>2, <2>3, HandStep
<1>6. ASSUME NEW w \in Worker, LoadFailed(w) PROVE OutcomeInv'
  <2>1. w \in Actor /\ work[w].p \in Publication
    BY <1>6, BusyWithOne DEF LoadFailed, Actor
  <2> QED
    BY <1>6, <2>1, LoadHand DEF LoadFailed
<1>7. ASSUME NEW d \in Dispatcher, NEW p \in DispatcherPub, Select(d, p)
      PROVE  OutcomeInv'
  BY <1>0, <1>7, LoadHand DEF Select, Actor
<1>8. ASSUME NEW d \in Dispatcher, ClaimSelected(d) PROVE OutcomeInv'
  <2>1. /\ d \in Actor /\ pc[d] \notin {"idle", "next"} /\ work[d].old \in Row
        /\ ~work[d].fanout
    BY <1>8 DEF ClaimSelected, Actor, TypeOK, Work, OutcomeInv, ActorInv
  <2>2. Claimed(work[d].old, d) \in Row /\ Claimed(work[d].old, d).status = "claimed"
    BY <2>1, ClaimedRow
  <2> QED
    BY <1>8, <2>1, <2>2, WriteHand DEF ClaimSelected
<1>9. ASSUME NEW d \in Dispatcher, Send(d) PROVE OutcomeInv'
  <2>1. /\ d \in Actor /\ pc[d] = "sending" /\ ~work[d].fanout
        /\ pc'[d] \in {"loading", "failing"}
        /\ pc'[d] = "loading" => work[d].p \in stream'
        /\ \A b \in Actor \ {d} : pc'[b] = pc[b]
        /\ stream \subseteq stream'
        /\ UNCHANGED <<row, event, receipt, delivered, work>>
    BY <1>9 DEF Send, Goto, Actor, TypeOK, OutcomeInv, ActorInv
  <2>2. ActorInv(d)'
    BY <2>1 DEF ActorInv
  <2> QED
    BY <2>1, <2>2, HandStep
<1>10. ASSUME NEW d \in Dispatcher, LoadSent(d) PROVE OutcomeInv'
  <2> DEFINE label == IF HoldsLease(row[work[d].p], d) THEN "publish" ELSE "failing"
  <2>1. /\ d \in Actor \ Worker /\ work[d].p \in Publication
        /\ label \in {"receipt", "claiming", "publish", "failing", "markfailed"}
    BY <1>10, BusyWithOne, ActorAssumption DEF LoadSent, Actor
  <2>2. work[d].p \in stream
    BY <1>10, <2>1 DEF LoadSent, OutcomeInv, ActorInv
  <2>3. LoadInto(d, work[d].p) /\ Goto(d, label) /\ UNCHANGED <<row, event, outcome>>
    BY <1>10 DEF LoadSent
  <2> HIDE DEF label
  <2> QED
    BY <2>1, <2>2, <2>3, LoadHand
<1>11. ASSUME NEW d \in Dispatcher, LoadUnsent(d) PROVE OutcomeInv'
  <2>1. d \in Actor /\ work[d].p \in Publication
    BY <1>11, BusyWithOne DEF LoadUnsent, Actor
  <2>2. CASE HoldsLease(row[work[d].p], d)
    BY <1>11, <2>1, <2>2, LoadHand DEF LoadUnsent
  <2>3. CASE ~HoldsLease(row[work[d].p], d)
    <3>1. /\ work' = [work EXCEPT ![d] = NoWork] /\ pc' = [pc EXCEPT ![d] = "idle"]
          /\ UNCHANGED <<row, event, outcome>>
      BY <1>11, <2>3 DEF LoadUnsent, Goto
    <3>2. ActorInv(d)'
      BY <2>1, <3>1, NoWorkIsWork DEF ActorInv, TypeOK
    <3> QED
      BY <2>1, <3>1, <3>2, HandStep DEF TypeOK
  <2> QED
    BY <2>2, <2>3
<1>12. ASSUME NEW a \in Actor, PublishRow(a) PROVE OutcomeInv'
  <2>1. /\ pc[a] = "publish" /\ pc[a] \notin {"idle", "next"} /\ work[a].old \in Row
        /\ work[a].after \in {"idle", "next", "sending"} /\ ActorInv(a)
        /\ work[a].p \in Publication
    BY <1>12, BusyWithOne DEF PublishRow, TypeOK, Work, OutcomeInv
  <2>2. work[a].fanout => a \in Worker /\ delivered[work[a].p] = 0
    BY <1>12, <2>1 DEF PublishRow, ActorInv, OutcomeInv, ReceiptInv
  <2>3. WillServe(a, work[a].p)
    <3>1. CASE a \in Worker /\ ~work[a].fanout
      BY <2>1, <3>1 DEF ActorInv, OutcomeInv, ReceiptInv, WillServe
    <3>2. CASE a \notin Worker
      BY <2>1, <3>2 DEF ActorInv, WillServe, Served
    <3>3. CASE work[a].fanout
      BY <3>3 DEF WillServe
    <3> QED
      BY <3>1, <3>2, <3>3
  <2> QED
    BY <1>12, <2>1, <2>2, <2>3, ReleasedRow, WriteHand DEF PublishRow
<1>13. ASSUME NEW a \in Actor, MarkFailed(a) PROVE OutcomeInv'
  <2> DEFINE s == FailureStatus(work[a].old)
  <2>1. /\ pc[a] \notin {"idle", "next"} /\ work[a].old \in Row
        /\ work[a].after \in {"idle", "next", "sending"} /\ ~work[a].fanout
    BY <1>13 DEF MarkFailed, TypeOK, Work, OutcomeInv, ActorInv
  <2>2. s \in {"failed", "dead_letter"}
    BY DEF FailureStatus
  <2>3. WriteRow(a, Released(work[a].old, s), work[a].after)
    BY <1>13 DEF MarkFailed
  <2> HIDE DEF s
  <2>4. Released(work[a].old, s) \in Row /\ Released(work[a].old, s).status # "published"
    BY <2>1, <2>2, ReleasedRow
  <2> QED
    BY <2>1, <2>3, <2>4, WriteHand
<1>14. ASSUME NEW a \in Actor, WriteEvent(a) PROVE OutcomeInv'
  <2>1. /\ pc' = [pc EXCEPT ![a] = "commit"] /\ pc[a] = "event"
        /\ UNCHANGED <<row, event, receipt, delivered, stream, work>>
    BY <1>14 DEF WriteEvent, Goto
  <2>2. \A q : WillServe(a, q) = WillServe(a, q)'
    BY <2>1 DEF WillServe, Served
  <2>3. ActorInv(a)'
    BY <2>1, <2>2 DEF OutcomeInv, ActorInv, TypeOK
  <2> QED
    BY <2>1, <2>3, HandStep DEF TypeOK
<1>15. ASSUME NEW a \in Actor, NEW lost \in BOOLEAN, Commit(a, lost) PROVE OutcomeInv'
  BY <1>15, CommitHand
<1>16. ASSUME NEW a \in Actor, Fail(a) PROVE OutcomeInv'
  <2> DEFINE named == [NoWork EXCEPT !.p = work[a].p]
  <2>1. named.fanout = FALSE
    BY <1>16, BusyWithOne, NamedWork DEF Fail
  <2>2. /\ work' = [work EXCEPT ![a] = named] /\ pc' = [pc EXCEPT ![a] = "failing"]
        /\ UNCHANGED <<row, event, outcome>>
    BY <1>16 DEF Fail, Goto
  <2> HIDE DEF named
  <2>3. ActorInv(a)'
    BY <2>1, <2>2 DEF ActorInv, TypeOK
  <2> QED
    BY <2>2, <2>3, HandStep DEF TypeOK
<1>17. ASSUME NEW a \in Actor, Crash(a) PROVE OutcomeInv'
  <2>1. /\ work' = [work EXCEPT ![a] = NoWork] /\ pc' = [pc EXCEPT ![a] = "idle"]
        /\ UNCHANGED <<row, event, outcome>>
    BY <1>17 DEF Crash, Goto
  <2>2. ActorInv(a)'
    BY <2>1, NoWorkIsWork DEF ActorInv, TypeOK
  <2> QED
    BY <2>1, <2>2, HandStep DEF TypeOK
<1>18. ASSUME NEW p \in Publication, Consume(p) PROVE OutcomeInv'
  <2>1. /\ p \in stream /\ receipt' = receipt \cup {p}
        /\ UNCHANGED <<row, event, delivered, stream, pc, work>>
    BY <1>18 DEF Consume
  <2>2. ReceiptInv'
    BY <2>1 DEF OutcomeInv, ReceiptInv, Served
  <2>3. PublishedIsServed'
    BY <2>1 DEF OutcomeInv, PublishedIsServed, Served
  <2>4. ASSUME NEW b \in Actor PROVE ActorInv(b)'
    <3>1. ActorInv(b) /\ \A q : WillServe(b, q) = WillServe(b, q)'
      BY <2>1 DEF OutcomeInv, WillServe, Served
    <3> QED
      BY <2>1, <3>1 DEF ActorInv
  <2> QED
    BY <2>2, <2>3, <2>4 DEF OutcomeInv
<1>19. ASSUME NEW p \in Publication, Expire(p) PROVE OutcomeInv'
  <2>1. \A q \in Publication : row'[q].status = row[q].status
    BY <1>19 DEF Expire, TypeOK, Row
  <2>2. UNCHANGED <<event, receipt, delivered, stream, pc, work>>
    BY <1>19 DEF Expire
  <2>3. ReceiptInv' /\ PublishedIsServed'
    BY <2>1, <2>2 DEF OutcomeInv, ReceiptInv, PublishedIsServed, Served
  <2>4. ASSUME NEW b \in Actor PROVE ActorInv(b)'
    <3>1. ActorInv(b) /\ \A q : WillServe(b, q) = WillServe(b, q)'
      BY <2>2 DEF OutcomeInv, WillServe, Served
    <3> QED
      BY <2>2, <3>1 DEF ActorInv
  <2> QED
    BY <2>3, <2>4 DEF OutcomeInv
<1> QED
  BY <1>1, <1>2, <1>3, <1>4, <1>5, <1>6, <1>7, <1>8, <1>9, <1>10, <1>11, <1>12, <1>13,
     <1>14, <1>15, <1>16, <1>17, <1>18, <1>19 DEF Next

\* A fan-out is committed at most once, however often its publication is
\* claimed, retried or its COMMIT reported lost: the receipt is stored in the
\* same transaction, and only one session at a time, the holder of the row
\* lock, is about to store it.
THEOREM FanoutsDeliveredOnce == Spec => []DeliveredOnce
<1>1. OutcomeInv => DeliveredOnce
  BY DEF OutcomeInv, ReceiptInv, DeliveredOnce
<1> QED
  BY <1>1, InitPlace, NextPlace, InitLock, NextLock, InitOutcome, NextOutcome, PTL DEF Spec

\* What is marked published, publication or event, has been fanned out or
\* accepted by JetStream: the event's verdict is taken from rows that are
\* committed or committed with it, and nothing takes a delivery back.
THEOREM PublishedMeansServed == Spec => []PublishedIsServed
<1>1. OutcomeInv => PublishedIsServed
  BY DEF OutcomeInv
<1> QED
  BY <1>1, InitPlace, NextPlace, InitLock, NextLock, InitOutcome, NextOutcome, PTL DEF Spec

=============================================================================
