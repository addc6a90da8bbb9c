----------------------- MODULE HostParameters_proofs -----------------------
(***************************************************************************)
(* Theorems about HostParameters.  Every step keeps the parts of            *)
(* ParameterInv, one lemma for each part; ValuesSettle is what the          *)
(* invariant says once nothing is on its way.                               *)
(***************************************************************************)
EXTENDS HostParameters, Integers, FiniteSetTheorems, WellFoundedInduction, TLAPS

USE ParameterAssumption

-----------------------------------------------------------------------------
(***************************************************************************)
(* Values, and what a ring leaves                                           *)
(***************************************************************************)
MaybeValues == [Params -> Maybe]

(* None is neither a value nor a parameter. *)
LEMMA ValueFacts ==
  /\ 0 \in Values /\ None \notin Values /\ None \notin Params
  /\ \A v \in Values : v \in Nat /\ v <= MaxWrites
  /\ NoValues \in MaybeValues /\ \A p \in Params : NoValues[p] = None
BY DEF Values, NoValues, MaybeValues, Maybe

(* A set of indices has a last one. *)
LEMMA HasLast ==
  ASSUME NEW n \in Nat, NEW S \in SUBSET (1 .. n), S # {}
  PROVE  \E i \in S : \A j \in S : j <= i
<1> DEFINE T == {n - i : i \in S}
<1>1. \A i \in S : n - i \in Nat
  OBVIOUS
<1>2. T \in SUBSET Nat /\ T # {}
  BY <1>1
<1> HIDE DEF T
<1> DEFINE Less == OpToRel(<, Nat)
<1>3. IsWellFoundedOn(Less, Nat)
  BY NatLessThanWellFounded, Zenon
<1>4. \A x, y \in Nat : <<x, y>> \in Less <=> x < y
  BY Zenon DEF OpToRel
<1> HIDE DEF Less
<1>5. \E x \in T : \A y \in T : ~ (<<y, x>> \in Less)
  BY <1>2, <1>3, WFMin
<1>6. \E x \in T : \A y \in T : ~ (y < x)
  BY <1>2, <1>4, <1>5
<1>7. PICK i \in S : \A j \in S : ~(n - j < n - i)
  BY <1>6 DEF T
<1> QED
  BY <1>7

Mentions(s, p) == {i \in 1 .. Len(s) : s[i].id = p}

(* The last update that mentions a parameter. *)
LEMMA LastMention ==
  ASSUME NEW s \in Seq(Updates), NEW p \in Params, Mentions(s, p) # {}
  PROVE  \E i \in Mentions(s, p) :
           (\A j \in Mentions(s, p) : j <= i) /\ LastOf(s, {})[p] = s[i].value /\ s[i].value \in Values
<1> DEFINE mine == Mentions(s, p)
           last == CHOOSE i \in mine : \A j \in mine : j <= i
<1>1. Len(s) \in Nat /\ mine \in SUBSET (1 .. Len(s)) /\ mine # {}
  BY DEF Mentions
<1>2. \E i \in mine : \A j \in mine : j <= i
  BY <1>1, HasLast
<1>3. last \in mine /\ \A j \in mine : j <= last
  BY <1>2
<1>4. LastOf(s, {})[p] = s[last].value
  BY <1>1 DEF LastOf, Mentions
<1>5. s[last] \in Updates
  BY <1>1, <1>3
<1> QED
  BY <1>3, <1>4, <1>5 DEF Updates

(* A ring that does not mention a parameter leaves nothing of it. *)
LEMMA NoMention ==
  ASSUME NEW s, NEW p \in Params, Mentions(s, p) = {}
  PROVE  LastOf(s, {})[p] = None
BY DEF LastOf, Mentions

(* What a ring leaves is a value or nothing, and nothing for an empty ring. *)
LEMMA LastType ==
  ASSUME NEW s \in Seq(Updates), NEW kept
  PROVE  /\ LastOf(s, kept) \in MaybeValues
         /\ \A p \in Params : LastOf(s, kept)[p] = IF p \in kept THEN None ELSE LastOf(s, {})[p]
<1>1. \A p \in Params : LastOf(s, kept)[p] = IF p \in kept THEN None ELSE LastOf(s, {})[p]
  BY DEF LastOf
<1>2. \A p \in Params : LastOf(s, {})[p] \in Maybe
  BY LastMention, NoMention DEF Maybe
<1>3. LastOf(s, kept) = [p \in Params |-> LastOf(s, kept)[p]]
  BY DEF LastOf
<1>4. \A p \in Params : LastOf(s, kept)[p] \in Maybe
  BY <1>1, <1>2 DEF Maybe
<1> HIDE DEF MaybeValues
<1>5. LastOf(s, kept) \in [Params -> Maybe]
  BY <1>3, <1>4
<1> QED BY <1>1, <1>5 DEF MaybeValues

(* An empty ring leaves nothing. *)
LEMMA LastEmpty ==
  ASSUME NEW p \in Params
  PROVE  LastOf(<<>>, {})[p] = None
<1>1. Mentions(<<>>, p) = {}
  BY DEF Mentions
<1> QED BY <1>1, NoMention

(* The newest update is what a ring leaves of its parameter. *)
LEMMA LastAppend ==
  ASSUME NEW s \in Seq(Updates), NEW q \in Params, NEW v \in Values, NEW p \in Params
  PROVE  LastOf(Append(s, [id |-> q, value |-> v]), {})[p] = IF p = q THEN v ELSE LastOf(s, {})[p]
<1> DEFINE u == [id |-> q, value |-> v]
           t == Append(s, u)
<1>1. u \in Updates /\ u.id = q /\ u.value = v
  BY DEF Updates
<1> HIDE DEF u
<1>2. /\ t \in Seq(Updates) /\ Len(t) = Len(s) + 1 /\ Len(s) \in Nat /\ t[Len(s) + 1] = u
      /\ \A i \in 1 .. Len(s) : t[i] = s[i]
  BY <1>1
<1> HIDE DEF t
<1>3. CASE p = q
  <2>1. Len(s) + 1 \in Mentions(t, p)
    BY <1>1, <1>2, <1>3 DEF Mentions
  <2>2. PICK i \in Mentions(t, p) :
          (\A j \in Mentions(t, p) : j <= i) /\ LastOf(t, {})[p] = t[i].value
    BY <1>2, <2>1, LastMention
  <2>3. i = Len(s) + 1
    BY <1>2, <2>1, <2>2 DEF Mentions
  <2> QED BY <1>1, <1>2, <1>3, <2>2, <2>3 DEF t, u
<1>4. CASE p # q
  <2>1. Mentions(t, p) = Mentions(s, p)
    BY <1>1, <1>2, <1>4 DEF Mentions
  <2>2. CASE Mentions(s, p) = {}
    BY <1>4, <2>1, <2>2, NoMention DEF t, u
  <2>3. CASE Mentions(s, p) # {}
    <3>1. PICK i \in Mentions(t, p) :
            (\A j \in Mentions(t, p) : j <= i) /\ LastOf(t, {})[p] = t[i].value
      BY <1>2, <2>1, <2>3, LastMention
    <3>2. PICK k \in Mentions(s, p) :
            (\A j \in Mentions(s, p) : j <= k) /\ LastOf(s, {})[p] = s[k].value
      BY <2>3, LastMention
    <3>3. i = k /\ t[i] = s[k]
      BY <1>2, <2>1, <3>1, <3>2 DEF Mentions
    <3> QED BY <1>4, <3>1, <3>2, <3>3 DEF t, u
  <2> QED BY <2>2, <2>3
<1> QED BY <1>3, <1>4

-----------------------------------------------------------------------------
(***************************************************************************)
(* HostedPlugin                                                             *)
(***************************************************************************)
LEMMA EitherType ==
  ASSUME NEW new \in MaybeValues
  PROVE  /\ \A old \in [Params -> Values] : Either(new, old) \in [Params -> Values]
         /\ \A old \in MaybeValues : Either(new, old) \in MaybeValues
         /\ \A old : \A p \in Params : Either(new, old)[p] = IF new[p] # None THEN new[p] ELSE old[p]
BY DEF Either, MaybeValues, Maybe

(* An engine by its fields. *)
LEMMA EngineFields ==
  ASSUME NEW e
  PROVE  e \in Engines <=>
           /\ e = [processor |-> e.processor, mirror |-> e.mirror, queued |-> e.queued, updates |-> e.updates]
           /\ e.processor \in [Params -> Values] /\ e.mirror \in [Params -> Values]
           /\ e.queued \in MaybeValues /\ e.updates \in MaybeValues
BY DEF Engines, MaybeValues

(* A queued value is mirrored and recorded at once. *)
LEMMA QueuedCoherent ==
  ASSUME NEW e \in Engines, NEW values \in MaybeValues
  PROVE  /\ Queued(e, values) \in Engines
         /\ Coherent(e) => Coherent(Queued(e, values))
         /\ Queued(e, values).mirror = Either(values, e.mirror)
         /\ Queued(e, values).updates = Either(values, e.updates)
<1> DEFINE new == Queued(e, values)
<1>1. /\ e.processor \in [Params -> Values] /\ e.mirror \in [Params -> Values]
      /\ e.queued \in MaybeValues /\ e.updates \in MaybeValues
  BY EngineFields
<1>2. /\ new.processor = e.processor /\ new.mirror = Either(values, e.mirror)
      /\ new.queued = Either(values, e.queued) /\ new.updates = Either(values, e.updates)
      /\ new = [processor |-> new.processor, mirror |-> new.mirror, queued |-> new.queued,
                updates |-> new.updates]
  <2> DEFINE m == Either(values, e.mirror)
             u == Either(values, e.updates)
             q == Either(values, e.queued)
  <2>1. new = [e EXCEPT !.mirror = m, !.updates = u, !.queued = q]
    BY DEF Queued
  <2> HIDE DEF new, m, u, q
  <2>2. new = [processor |-> e.processor, mirror |-> m, queued |-> q, updates |-> u]
    BY <2>1 DEF Engines
  <2> QED BY <2>2 DEF m, u, q
<1> HIDE DEF new
<1>3. new \in Engines
  BY <1>1, <1>2, EitherType, EngineFields
<1>4. ASSUME Coherent(e) PROVE Coherent(new)
  BY <1>1, <1>2, <1>4, EitherType DEF Coherent
<1> QED BY <1>2, <1>3, <1>4 DEF new

(* A process call takes the queue along, and what the plug-in changes itself is *)
(* mirrored and recorded. *)
LEMMA ProcessedCoherent ==
  ASSUME NEW e \in Engines, NEW own \in MaybeValues
  PROVE  /\ Processed(e, own) \in Engines
         /\ Coherent(e) => Coherent(Processed(e, own))
         /\ Processed(e, own).mirror = Either(own, e.mirror)
         /\ Processed(e, own).updates = Either(own, e.updates)
         /\ Processed(e, own).queued = NoValues
<1> DEFINE new == Processed(e, own)
<1>1. /\ e.processor \in [Params -> Values] /\ e.mirror \in [Params -> Values]
      /\ e.queued \in MaybeValues /\ e.updates \in MaybeValues
  BY EngineFields
<1>2. /\ new.processor = Either(own, Either(e.queued, e.processor)) /\ new.mirror = Either(own, e.mirror)
      /\ new.queued = NoValues /\ new.updates = Either(own, e.updates)
      /\ new = [processor |-> new.processor, mirror |-> new.mirror, queued |-> new.queued,
                updates |-> new.updates]
  BY DEF Processed
<1> HIDE DEF new
<1>3. new \in Engines
  BY <1>1, <1>2, EitherType, EngineFields, ValueFacts
<1>4. ASSUME Coherent(e) PROVE Coherent(new)
  <2>1. \A p \in Params : new.mirror[p] = new.processor[p]
    BY <1>1, <1>2, <1>4, EitherType DEF Coherent
  <2> QED BY <1>1, <1>2, <1>4, <2>1, EitherType, ValueFacts DEF Coherent
<1> QED BY <1>2, <1>3, <1>4 DEF new

(* What the plug-in may change itself in a call. *)
LEMMA OwnChangesType ==
  ASSUME writes \in 0 .. MaxWrites, NEW own \in OwnChanges, OwnWrite(own)
  PROVE  /\ own \in MaybeValues /\ writes' \in 0 .. MaxWrites /\ writes <= writes'
         /\ \A p \in Params : own[p] # None => own[p] = writes'
<1>1. CASE own = NoValues
  BY <1>1, ValueFacts DEF OwnWrite
<1>2. CASE own # NoValues
  <2>1. writes < MaxWrites /\ writes' = writes + 1
    BY <1>2 DEF OwnWrite, Write
  <2>2. PICK q \in Params : own = [NoValues EXCEPT ![q] = writes + 1]
    BY <1>2 DEF OwnChanges
  <2>3. writes + 1 \in Values
    BY <2>1 DEF Values
  <2>4. \A p \in Params : own[p] = IF p = q THEN writes + 1 ELSE None
    BY <2>2, ValueFacts DEF MaybeValues
  <2>5. own \in MaybeValues
    BY <2>2, <2>3, ValueFacts DEF MaybeValues, Maybe
  <2> QED BY <2>1, <2>4, <2>5
<1> QED BY <1>1, <1>2

(* A call that leaves an engine coherent, where every parameter keeps its mirror *)
(* and its record, or has been written or sent something. *)
Handed(e, sent, number) ==
    /\ engine' \in Engines /\ Coherent(engine')
    /\ \A p \in Params :
         \/ /\ sent[p] = None
            /\ engine'.mirror[p] = e.mirror[p] /\ engine'.updates[p] = e.updates[p]
         \/ engine'.mirror[p] = sent[p] /\ sent[p] # None /\ engine'.updates[p] # None
         \/ engine'.mirror[p] = number /\ number \in Values /\ engine'.updates[p] # None

(* Commands queued for the next call of the plug-in. *)
LEMMA QueueHands ==
  ASSUME NEW e \in Engines, Coherent(e), NEW sent \in MaybeValues, engine' = Queued(e, sent),
         NEW n
  PROVE  Handed(e, sent, n)
BY QueuedCoherent, EitherType DEF Handed

(* A flush leaves nothing queued, and what the plug-in changes in it is the *)
(* newest write. *)
LEMMA FlushHands ==
  ASSUME writes \in 0 .. MaxWrites, NEW e \in Engines, Coherent(e), NEW sent \in MaybeValues,
         Flushed(Queued(e, sent))
  PROVE  /\ Handed(e, sent, writes') /\ engine'.queued = NoValues
         /\ writes' \in 0 .. MaxWrites /\ writes <= writes'
<1> DEFINE given == Queued(e, sent)
<1>1. /\ given \in Engines /\ Coherent(given)
      /\ \A p \in Params : given.mirror[p] = IF sent[p] # None THEN sent[p] ELSE e.mirror[p]
      /\ \A p \in Params : given.updates[p] = IF sent[p] # None THEN sent[p] ELSE e.updates[p]
  BY QueuedCoherent, EitherType
<1> HIDE DEF given
<1>2. CASE given.queued = NoValues
  <2>1. engine' = given /\ writes' = writes
    BY <1>2 DEF Flushed, given
  <2> QED BY <1>1, <1>2, <2>1 DEF Handed
<1>3. CASE given.queued # NoValues
  <2>1. PICK own \in OwnChanges : OwnWrite(own) /\ engine' = Processed(given, own)
    BY <1>3 DEF Flushed, given
  <2>2. /\ own \in MaybeValues /\ writes' \in 0 .. MaxWrites /\ writes <= writes'
        /\ \A p \in Params : own[p] # None => own[p] = writes'
    BY <2>1, OwnChangesType
  <2>3. /\ engine' \in Engines /\ Coherent(engine') /\ engine'.queued = NoValues
        /\ engine'.mirror = Either(own, given.mirror) /\ engine'.updates = Either(own, given.updates)
    BY <1>1, <2>1, <2>2, ProcessedCoherent
  <2>4. \A p \in Params :
          /\ engine'.mirror[p] = IF own[p] # None THEN own[p] ELSE given.mirror[p]
          /\ engine'.updates[p] = IF own[p] # None THEN own[p] ELSE given.updates[p]
    BY <2>2, <2>3, EitherType
  <2>5. \A p \in Params : own[p] # None => writes' \in Values
    BY <2>2 DEF Values
  <2> QED BY <1>1, <2>2, <2>3, <2>4, <2>5 DEF Handed
<1> QED BY <1>2, <1>3

(* A block without commands. *)
LEMMA BlockHands ==
  ASSUME writes \in 0 .. MaxWrites, engine \in Engines, Coherent(engine),
         NEW own \in OwnChanges, OwnWrite(own), engine' = Processed(engine, own)
  PROVE  /\ Handed(engine, NoValues, writes') /\ engine'.queued = NoValues
         /\ writes' \in 0 .. MaxWrites /\ writes <= writes'
<1>1. /\ own \in MaybeValues /\ writes' \in 0 .. MaxWrites /\ writes <= writes'
      /\ \A p \in Params : own[p] # None => own[p] = writes'
  BY OwnChangesType
<1>2. /\ engine' \in Engines /\ Coherent(engine') /\ engine'.queued = NoValues
      /\ engine'.mirror = Either(own, engine.mirror) /\ engine'.updates = Either(own, engine.updates)
  BY <1>1, ProcessedCoherent
<1>3. \A p \in Params :
        /\ engine'.mirror[p] = IF own[p] # None THEN own[p] ELSE engine.mirror[p]
        /\ engine'.updates[p] = IF own[p] # None THEN own[p] ELSE engine.updates[p]
  BY <1>1, <1>2, EitherType
<1>4. \A p \in Params : own[p] # None => writes' \in Values
  BY <1>1 DEF Values
<1> QED BY <1>1, <1>2, <1>3, <1>4, ValueFacts DEF Handed

-----------------------------------------------------------------------------
(***************************************************************************)
(* The record of the control thread                                         *)
(***************************************************************************)
Turns(at, why, failed, todo, read, generation, pass) ==
    /\ control'.at = at /\ control'.why = why /\ control'.native_failed = failed
    /\ control'.todo = todo /\ control'.read = read /\ control'.generation = generation
    /\ control'.pass = pass

\* The control thread goes somewhere, with what it has read ...
Moves(at, read) ==
    Turns(at, control.why, control.native_failed, control.todo, read, control.generation, control.pass)
\* ... asks for a pause ...
AsksFor(why) ==
    Turns("pausing", why, control.native_failed, control.todo, control.read, control.generation, control.pass)
\* ... is at the sliders, with a generation it has read ...
Hosts(at, todo, read, generation) ==
    Turns(at, control.why, control.native_failed, todo, read, generation, control.pass)
\* ... or goes on after a pause.
Returns ==
    \E at \in {"pump", "host", "tail"}, failed \in BOOLEAN, todo \in SUBSET Params :
       Turns(at, "none", failed, todo, NoValues, 0, 0)

(* The record of the control thread by its fields. *)
LEMMA ControlFields ==
  ASSUME NEW c \in Controls
  PROVE  /\ c.at \in Places /\ c.why \in Reasons /\ c.native_failed \in BOOLEAN
         /\ c.todo \in SUBSET Params /\ c.read \in MaybeValues
         /\ c.generation \in Values /\ c.pass \in 0 .. CatchUpPasses
BY DEF Controls, MaybeValues

\* What OBS has written and the helper has not taken, at a frontier.
Behind == {p \in Params : descriptor[p].pending # descriptor[p].applied}
PendingOfBehind == [p \in Params |-> IF p \in Behind THEN descriptor[p].pending ELSE None]
ValuesOfBehind == [p \in Params |-> IF p \in Behind THEN descriptor[p].value ELSE None]
AllAcknowledged == \A p \in Params : descriptor[p].pending = descriptor[p].applied

(* Where every step of the control thread leaves its record. *)
LEMMA ControlSteps ==
  ASSUME control \in Controls, PauseInv
  PROVE  /\ TopDrain => IF Kept = {} /\ resync THEN AsksFor("resync") ELSE Moves("pump", control.read)
         /\ \A p \in Params :
              /\ PerformEdit(p) => Moves("publish", [NoValues EXCEPT ![p] = writes + 1])
              /\ HostRead(p) =>
                   IF descriptor[p].pending = descriptor[p].applied
                   THEN Hosts("host", control.todo \ {p}, control.read, control.generation)
                   ELSE Hosts("apply", control.todo \ {p}, [NoValues EXCEPT ![p] = 0], descriptor[p].pending)
              /\ HostApply(p) => Moves("show", [control.read EXCEPT ![p] = descriptor[p].value])
              /\ HostApplyLater(p) => Hosts("host", control.todo, NoValues, 0)
              /\ HostShow(p) => Hosts("host", control.todo, NoValues, 0)
         /\ PublishEdit => Moves("pump", NoValues)
         /\ PumpDone => IF Kept # {} THEN AsksFor("native")
                        ELSE Hosts("host", Params, control.read, control.generation)
         /\ PauseGranted => Moves("paused", control.read)
         /\ PauseTimesOut \/ ResumeEnds => Returns
         /\ ReconcileFeedback => Moves(IF control.why = "resync" THEN "resuming" ELSE "catch_up", control.read)
         /\ ReconcileNative => Moves(IF control.why = "native" THEN "resuming" ELSE "catch_up", control.read)
         /\ Capture => Moves("resuming", control.read)
         /\ FrontierFails => \E failed \in BOOLEAN :
              Turns("resuming", control.why, failed, control.todo, control.read, control.generation, control.pass)
         /\ NoStateRequest => Turns("tail", control.why, FALSE, control.todo, control.read, control.generation,
                                   control.pass)
         /\ StateRequest => AsksFor("state")
         /\ CatchUp =>
              IF Behind = {} THEN Moves("capture", control.read)
              ELSE Turns("acknowledge", control.why, control.native_failed, control.todo, PendingOfBehind,
                         control.generation, control.pass + 1)
         /\ CatchUpAcknowledge =>
              IF AllAcknowledged' \/ control.pass < CatchUpPasses
              THEN Moves(IF AllAcknowledged' THEN "capture" ELSE "catch_up", NoValues)
              ELSE Moves("resuming", control.read)
         /\ TailDrain => Turns("top", "none", FALSE, {}, NoValues, 0, 0)
<1>1. TopDrain => IF Kept = {} /\ resync THEN AsksFor("resync") ELSE Moves("pump", control.read)
  BY DEF TopDrain, Goes, AsksFor, Moves, Turns, Controls
<1>2. ASSUME NEW p \in Params
       PROVE  PerformEdit(p) => Moves("publish", [NoValues EXCEPT ![p] = writes + 1])
  BY DEF PerformEdit, Moves, Turns, Controls
<1>3. ASSUME NEW p \in Params
       PROVE  HostRead(p) =>
                   IF descriptor[p].pending = descriptor[p].applied
                   THEN Hosts("host", control.todo \ {p}, control.read, control.generation)
                   ELSE Hosts("apply", control.todo \ {p}, [NoValues EXCEPT ![p] = 0], descriptor[p].pending)
  BY DEF HostRead, Hosts, At, Turns, Controls
<1>4. ASSUME NEW p \in Params
       PROVE  /\ HostApply(p) => Moves("show", [control.read EXCEPT ![p] = descriptor[p].value])
              /\ HostApplyLater(p) => Hosts("host", control.todo, NoValues, 0)
  BY DEF HostApply, HostApplyLater, Hosts, Moves, Turns, Controls
<1>5. ASSUME NEW p \in Params PROVE HostShow(p) => Hosts("host", control.todo, NoValues, 0)
  BY DEF HostShow, Hosts, Turns, Controls
<1>6. PublishEdit => Moves("pump", NoValues)
  BY DEF PublishEdit, Moves, Turns, Controls
<1>7. PumpDone => IF Kept # {} THEN AsksFor("native")
                   ELSE Hosts("host", Params, control.read, control.generation)
  BY DEF PumpDone, AsksFor, Hosts, Turns, Controls
<1>8. /\ PauseGranted => Moves("paused", control.read)
      /\ Capture => Moves("resuming", control.read)
      /\ FrontierFails => \E failed \in BOOLEAN :
           Turns("resuming", control.why, failed, control.todo, control.read, control.generation, control.pass)
  BY DEF PauseGranted, FrontierFails, Capture, Resumes, Goes, Moves, Turns, Controls
<1>9. PauseTimesOut \/ ResumeEnds => Returns
  <2> DEFINE next == CASE control.why = "resync" -> "pump"
                       [] control.why = "native" -> "host"
                       [] control.why = "state" -> "tail"
             left == IF control.why = "native" THEN Params ELSE {}
  <2>1. SUFFICES ASSUME PauseTimesOut \/ ResumeEnds PROVE Returns
    OBVIOUS
  <2>2. control.why \in {"resync", "native", "state"}
    BY <2>1, ControlFields DEF PauseTimesOut, ResumeEnds, PauseInv, At, Reasons
  <2>3. next \in {"pump", "host", "tail"} /\ left \in SUBSET Params
    BY <2>2
  <2>4. \A f : control' = AfterPause(f) => Turns(next, "none", f, left, NoValues, 0, 0)
    BY DEF AfterPause, Turns, Controls
  <2> HIDE DEF next, left
  <2>5. control' = AfterPause(control.native_failed) \/ control' = AfterPause(control.why = "native")
    BY <2>1 DEF PauseTimesOut, ResumeEnds
  <2>6. (control.why = "native") \in BOOLEAN /\ control.native_failed \in BOOLEAN
    BY ControlFields
  <2> QED BY <2>3, <2>4, <2>5, <2>6 DEF Returns
<1>10. ReconcileFeedback => Moves(IF control.why = "resync" THEN "resuming" ELSE "catch_up", control.read)
  BY DEF ReconcileFeedback, Resumes, Goes, Moves, Turns, Controls
<1>11. ReconcileNative => Moves(IF control.why = "native" THEN "resuming" ELSE "catch_up", control.read)
  BY DEF ReconcileNative, Resumes, Goes, Moves, Turns, Controls
<1>12. NoStateRequest => Turns("tail", control.why, FALSE, control.todo, control.read, control.generation,
                                   control.pass)
  BY DEF NoStateRequest, Turns, Controls
<1>13. StateRequest => AsksFor("state")
  BY DEF StateRequest, AsksFor, Turns, Controls
<1>14. TailDrain => Turns("top", "none", FALSE, {}, NoValues, 0, 0)
  BY DEF TailDrain, Top, Turns
<1>15. CatchUp =>
         IF Behind = {} THEN Moves("capture", control.read)
         ELSE Turns("acknowledge", control.why, control.native_failed, control.todo, PendingOfBehind,
                    control.generation, control.pass + 1)
  BY DEF CatchUp, Behind, PendingOfBehind, Goes, Moves, Turns, Controls
<1>16. CatchUpAcknowledge =>
         IF AllAcknowledged' \/ control.pass < CatchUpPasses
         THEN Moves(IF AllAcknowledged' THEN "capture" ELSE "catch_up", NoValues)
         ELSE Moves("resuming", control.read)
  BY DEF CatchUpAcknowledge, AllAcknowledged, Resumes, Goes, Moves, Turns, Controls
<1> QED BY <1>15, <1>16, <1>1, <1>2, <1>3, <1>4, <1>5, <1>6, <1>7, <1>8, <1>9, <1>10, <1>11, <1>12, <1>13, <1>14

-----------------------------------------------------------------------------
(***************************************************************************)
(* Types                                                                    *)
(***************************************************************************)
LEMMA Named ==
  /\ {"top", "pump", "publish", "resuming", "host", "apply", "show", "tail", "pausing", "paused",
      "catch_up", "acknowledge", "capture"} \subseteq Places
  /\ {"none", "resync", "native", "state"} \subseteq Reasons
  /\ {"wait", "feedback", "drain", "flushed", "settled", "confirm", "parked"} \subseteq Steps
BY DEF Places, Pausing, Granted, Frontier, Reasons, Steps, Settled

(* What is shown to OBS. *)
LEMMA ShownType ==
  ASSUME descriptor \in [Params -> Descriptors], NEW values \in MaybeValues
  PROVE  Shown(values) \in [Params -> Descriptors]
<1>1. ASSUME NEW p \in Params
      PROVE  [descriptor[p] EXCEPT !.current = IF values[p] # None THEN values[p] ELSE @] \in Descriptors
  <2>1. descriptor[p] \in Descriptors /\ values[p] \in Maybe
    BY DEF MaybeValues
  <2>2. (IF values[p] # None THEN values[p] ELSE descriptor[p].current) \in Values
    BY <2>1 DEF Maybe, Descriptors
  <2> QED BY <2>1, <2>2 DEF Descriptors
<1> QED BY <1>1 DEF Shown

(* The descriptor of a parameter by its fields. *)
LEMMA DescriptorFields ==
  ASSUME descriptor \in [Params -> Descriptors], NEW p \in Params
  PROVE  /\ descriptor[p].value \in Values /\ descriptor[p].pending \in Values
         /\ descriptor[p].applied \in Values /\ descriptor[p].current \in Values
BY DEF Descriptors

Controllers == controller' \in [Params -> Values] /\ refused' \in SUBSET Params

(* Whatever the controller makes of the values handed to it are values. *)
LEMMA HandBackType ==
  ASSUME TypeOK, NEW values, NEW held, HandBack(values, held)
  PROVE  Controllers
BY DEF HandBack, Controllers, TypeOK

(* A drain of the feedback keeps the types. *)
LEMMA DrainType ==
  ASSUME TypeOK, NEW kept, DrainFeedback(kept)
  PROVE  Controllers /\ descriptor' \in [Params -> Descriptors] /\ to_control' = <<>>
BY LastType, HandBackType, ShownType DEF DrainFeedback, TypeOK

(* So does a copy of the mirror. *)
LEMMA SyncType ==
  ASSUME TypeOK, NEW e \in Engines, NEW edits, SyncMirror(e, edits)
  PROVE  Controllers /\ descriptor' \in [Params -> Descriptors]
<1>1. e.mirror \in [Params -> Values]
  BY DEF Engines
<1>2. \A p \in Params : [descriptor[p] EXCEPT !.current = e.mirror[p]] \in Descriptors
  BY <1>1 DEF TypeOK, Descriptors
<1> QED BY <1>1, <1>2, HandBackType DEF SyncMirror

(* Another edit of a kept parameter, or of one there is room for. *)
LEMMA KeepType ==
  ASSUME TypeOK, NEW p \in Params, NEW v \in Values, p \in Kept \/ Cardinality(Kept) < OverrideCapacity,
         overrides' = [overrides EXCEPT ![p] = v]
  PROVE  overrides' \in [Params -> Maybe] /\ Kept' = Kept \cup {p} /\ Cardinality(Kept') <= OverrideCapacity
<1>1. overrides' \in [Params -> Maybe] /\ Kept' = Kept \cup {p}
  BY ValueFacts DEF TypeOK, Kept, Maybe
<1>2. IsFiniteSet(Kept)
  BY FS_Subset DEF Kept
<1>3. Cardinality(Kept \cup {p}) <= OverrideCapacity
  <2>1. CASE p \in Kept
    BY <2>1 DEF TypeOK
  <2>2. CASE p \notin Kept
    <3>1. Cardinality(Kept \cup {p}) = Cardinality(Kept) + 1 /\ Cardinality(Kept) \in Nat
      BY <1>2, <2>2, FS_AddElement, FS_CardinalityType
    <3> QED BY <2>2, <3>1
  <2> QED BY <2>1, <2>2
<1> QED BY <1>1, <1>3

(* An empty ring is within its capacity. *)
LEMMA EmptyRing == <<>> \in Seq(Updates) /\ Len(<<>>) <= RingCapacity
OBVIOUS

(* So is one that had room for another update. *)
LEMMA RingAppend ==
  ASSUME NEW s \in Seq(Updates), Len(s) < RingCapacity, NEW p \in Params, NEW v \in Values
  PROVE  Append(s, [id |-> p, value |-> v]) \in Seq(Updates)
         /\ Len(Append(s, [id |-> p, value |-> v])) <= RingCapacity
BY DEF Updates

(* Reconciled edits leave the override buffer empty. *)
LEMMA NothingKept ==
  ASSUME overrides' = NoValues
  PROVE  Kept' = {} /\ overrides' \in [Params -> Maybe] /\ Cardinality(Kept') <= OverrideCapacity
BY ValueFacts, FS_EmptySet DEF Kept, MaybeValues

USE DEF controllerVars, regionVars, ringVars, dspOnly, controlOnly

(* Every step keeps the types. *)
LEMMA TypeWorker ==
  ASSUME TypeOK, EngineInv, Worker
  PROVE  TypeOK'
<1> USE Named
<1>1. CASE DspBlock
  <2>1. PICK own \in OwnChanges : OwnWrite(own) /\ engine' = Processed(engine, own)
    BY <1>1 DEF DspBlock
  <2>2. Handed(engine, NoValues, writes') /\ writes' \in 0 .. MaxWrites
    BY <2>1, BlockHands DEF TypeOK, EngineInv
  <2> QED BY <1>1, <2>2 DEF DspBlock, TypeOK, Handed, Kept
<1>2. CASE DspWake
  BY <1>2 DEF DspWake, TypeOK, Kept
<1>3. CASE Feedback
  <2> DEFINE p == CHOOSE q \in Params : engine.updates[q] # None
             v == engine.updates[p]
  <2>1. p \in Params /\ v # None
    BY <1>3 DEF Feedback
  <2>2. v \in Values
    BY <2>1 DEF TypeOK, Engines, Maybe
  <2>3. /\ descriptor' = [descriptor EXCEPT ![p].current = v]
        /\ engine' = [engine EXCEPT !.updates[p] = None]
        /\ \/ /\ Len(to_control) < RingCapacity /\ resync' = resync
              /\ to_control' = Append(to_control, [id |-> p, value |-> v])
           \/ resync' = TRUE /\ to_control' = to_control
    BY <1>3 DEF Feedback
  <2> HIDE DEF p, v
  <2>0. descriptor \in [Params -> Descriptors]
    BY DEF TypeOK
  <2>4. descriptor' \in [Params -> Descriptors]
    BY <2>0, <2>1, <2>2, <2>3 DEF Descriptors
  <2>5. engine' \in Engines
    BY <2>1, <2>3 DEF TypeOK, Engines, Maybe
  <2>6. to_control' \in Seq(Updates) /\ Len(to_control') <= RingCapacity
    <3>1. CASE Len(to_control) < RingCapacity /\ to_control' = Append(to_control, [id |-> p, value |-> v])
      BY <2>1, <2>2, <3>1, RingAppend DEF TypeOK
    <3>2. CASE to_control' = to_control
      BY <3>2 DEF TypeOK
    <3> QED BY <2>3, <3>1, <3>2
  <2>7. resync' \in BOOLEAN
    BY <2>3 DEF TypeOK
  <2> QED BY <1>3, <2>4, <2>5, <2>6, <2>7 DEF Feedback, TypeOK, Kept
<1>4. CASE FeedbackDone
  <2>1. dsp' \in Steps
    BY <1>4 DEF FeedbackDone
  <2>2. processed' \in BOOLEAN
    BY <1>4 DEF FeedbackDone
  <2> QED BY <1>4, <2>1, <2>2 DEF FeedbackDone, TypeOK, Kept
<1>5. CASE DspDrain
  <2> DEFINE sent == LastOf(to_dsp, {})
  <2>1. sent \in MaybeValues
    BY LastType DEF TypeOK
  <2>2. \/ Flushed(Queued(engine, sent)) /\ dsp' = "flushed"
        \/ engine' = Queued(engine, sent) /\ dsp' = "wait" /\ writes' = writes
    BY <1>5 DEF DspDrain
  <2> HIDE DEF sent
  <2>3. engine' \in Engines /\ writes' \in 0 .. MaxWrites
    BY <2>1, <2>2, FlushHands, QueueHands DEF TypeOK, EngineInv, Handed
  <2> QED BY <1>5, <2>2, <2>3, EmptyRing DEF DspDrain, TypeOK, Kept
<1>6. CASE Settle
  <2>1. LastOf(to_dsp, {}) \in MaybeValues
    BY LastType DEF TypeOK
  <2>2. engine' \in Engines /\ writes' \in 0 .. MaxWrites
    BY <1>6, <2>1, FlushHands DEF Settle, TypeOK, EngineInv, Handed
  <2> QED BY <1>6, <2>2, EmptyRing DEF Settle, TypeOK, Kept
<1>7. CASE Park \/ Unpark
  BY <1>7 DEF Park, Unpark, TypeOK, Kept
<1>8. CASE DspFails
  BY <1>8 DEF DspFails, TypeOK, Kept
<1> QED BY <1>1, <1>2, <1>3, <1>4, <1>5, <1>6, <1>7, <1>8 DEF Worker

(* The control thread's steps that leave the values alone. *)
LEMMA TypeTurns ==
  ASSUME TypeOK, GenerationInv, PauseInv,
         \/ PumpDone \/ PauseGranted \/ PauseTimesOut \/ ResumeEnds \/ FrontierFails
         \/ NoStateRequest \/ StateRequest \/ Capture \/ \E p \in Params : HostRead(p)
  PROVE  TypeOK'
<1> USE Named
<1>1. CASE PumpDone
  <2>1. control' \in Controls
    <3>1. \/ control' = [control EXCEPT !.at = "pausing", !.why = "native"]
          \/ control' = [control EXCEPT !.at = "host", !.todo = Params]
      BY <1>1 DEF PumpDone
    <3>2. control \in Controls /\ Params \in SUBSET Params
      BY DEF TypeOK
    <3> QED BY <3>1, <3>2 DEF Controls
  <2>2. wants_pause' \in BOOLEAN
    BY <1>1 DEF PumpDone, TypeOK
  <2> QED BY <1>1, <2>1, <2>2 DEF PumpDone, TypeOK, Kept
<1>2. CASE PauseGranted
  BY <1>2 DEF PauseGranted, Goes, TypeOK, Controls, Kept
<1>3. CASE PauseTimesOut \/ ResumeEnds
  <2> DEFINE next == CASE control.why = "resync" -> "pump"
                       [] control.why = "native" -> "host"
                       [] control.why = "state" -> "tail"
             left == IF control.why = "native" THEN Params ELSE {}
  <2>2. control.why \in {"resync", "native", "state"}
    BY <1>3, ControlFields DEF TypeOK, PauseTimesOut, ResumeEnds, PauseInv, At, Reasons
  <2>3. next \in Places /\ left \in SUBSET Params
    BY <2>2
  <2>4. \A f \in BOOLEAN : AfterPause(f) \in Controls
    <3> HIDE DEF next, left
    <3>1. \A f : AfterPause(f) = [control EXCEPT !.at = next, !.why = "none", !.pass = 0, !.read = NoValues,
                                                 !.generation = 0, !.todo = left, !.native_failed = f]
      BY DEF AfterPause, next, left
    <3>2. control \in Controls /\ NoValues \in [Params -> Maybe] /\ 0 \in Values /\ 0 \in 0 .. CatchUpPasses
      BY ValueFacts DEF TypeOK, MaybeValues
    <3>3. SUFFICES ASSUME NEW f \in BOOLEAN
                   PROVE  [control EXCEPT !.at = next, !.why = "none", !.pass = 0, !.read = NoValues,
                                          !.generation = 0, !.todo = left, !.native_failed = f] \in Controls
      BY <3>1
    <3> HIDE DEF NoValues
    <3> QED BY <2>3, <3>2 DEF Controls
  <2>5. control' = AfterPause(control.native_failed) \/ control' = AfterPause(control.why = "native")
    BY <1>3 DEF PauseTimesOut, ResumeEnds
  <2>6. control' \in Controls
    BY <2>4, <2>5, ControlFields DEF TypeOK
  <2>7. wants_pause' \in BOOLEAN /\ late' \in BOOLEAN
    BY <1>3 DEF PauseTimesOut, ResumeEnds, TypeOK
  <2> QED BY <1>3, <2>6, <2>7 DEF PauseTimesOut, ResumeEnds, TypeOK, Kept
<1>4. CASE FrontierFails \/ Capture
  <2>1. \E failed \in BOOLEAN : control' = [control EXCEPT !.at = "resuming", !.native_failed = failed]
    <3>1. control \in Controls /\ (control.why = "native") \in BOOLEAN
      BY DEF TypeOK
    <3>2. CASE FrontierFails
      BY <3>1, <3>2 DEF FrontierFails
    <3>3. CASE Capture
      <4>1. control' = [control EXCEPT !.at = "resuming"]
        BY <3>3 DEF Capture, Resumes, Goes
      <4> QED BY <3>1, <4>1 DEF Controls
    <3> QED BY <1>4, <3>2, <3>3
  <2>2. control' \in Controls
    <3>1. control \in Controls
      BY DEF TypeOK
    <3> QED BY <2>1, <3>1 DEF Controls
  <2> QED BY <1>4, <2>2 DEF FrontierFails, Capture, Resumes, TypeOK, Kept
<1>5. CASE NoStateRequest
  BY <1>5 DEF NoStateRequest, TypeOK, Controls, Kept
<1>6. CASE StateRequest
  BY <1>6 DEF StateRequest, TypeOK, Controls, Kept
<1>7. ASSUME NEW p \in Params, HostRead(p) PROVE TypeOK'
  <2>1. descriptor[p].pending \in Values /\ control.todo \ {p} \in SUBSET Params
    BY DescriptorFields, ControlFields DEF TypeOK
  <2>2. [NoValues EXCEPT ![p] = 0] \in MaybeValues
    BY ValueFacts DEF MaybeValues, Maybe
  <2>3. control' \in Controls
    <3> DEFINE read == [NoValues EXCEPT ![p] = 0]
               todo == control.todo \ {p}
               generation == descriptor[p].pending
    <3>1. \/ control' = [control EXCEPT !.todo = todo]
          \/ control' = [control EXCEPT !.todo = todo, !.at = "apply", !.generation = generation, !.read = read]
      BY <1>7 DEF HostRead
    <3> HIDE DEF read, todo, generation
    <3>2. control \in Controls /\ todo \in SUBSET Params /\ read \in MaybeValues /\ generation \in Values
      BY <2>1, <2>2 DEF read, todo, generation, TypeOK
    <3> QED BY <3>1, <3>2 DEF Controls, MaybeValues
  <2> QED BY <1>7, <2>3 DEF HostRead, TypeOK, Kept
<1> QED BY <1>1, <1>2, <1>3, <1>4, <1>5, <1>6, <1>7

(* The others carry values about. *)
LEMMA TypeValues ==
  ASSUME TypeOK, EngineInv, GenerationInv, PauseInv,
         \/ TopDrain \/ TailDrain \/ PublishEdit \/ ReconcileFeedback \/ ReconcileNative \/ CatchUp
         \/ CatchUpAcknowledge \/ \E p \in Params : \/ PerformEdit(p) \/ HostApply(p)
                                              \/ HostApplyLater(p) \/ HostShow(p)
  PROVE  TypeOK'
<1> USE Named
<1>1. CASE TopDrain
  <2>1. Controllers /\ descriptor' \in [Params -> Descriptors] /\ to_control' = <<>>
    BY <1>1, DrainType DEF TopDrain
  <2>2. control' \in Controls
    BY <1>1 DEF TopDrain, Goes, TypeOK, Controls
  <2>3. wants_pause' \in BOOLEAN
    BY <1>1 DEF TopDrain, TypeOK
  <2> QED BY <1>1, <2>1, <2>2, <2>3, EmptyRing DEF TopDrain, TypeOK, Kept, Controllers
<1>2. CASE TailDrain
  <2>1. Controllers /\ descriptor' \in [Params -> Descriptors] /\ to_control' = <<>>
    BY <1>2, DrainType DEF TailDrain
  <2>2. control' \in Controls
    BY <1>2, ValueFacts DEF TailDrain, Top, Controls, MaybeValues
  <2> QED BY <1>2, <2>1, <2>2, EmptyRing DEF TailDrain, TypeOK, Kept, Controllers
<1>3. CASE PublishEdit
  <2>1. descriptor' \in [Params -> Descriptors]
    BY <1>3, ShownType, ControlFields DEF PublishEdit, TypeOK
  <2>2. control' \in Controls
    BY <1>3, ValueFacts DEF PublishEdit, TypeOK, Controls, MaybeValues
  <2> QED BY <1>3, <2>1, <2>2 DEF PublishEdit, TypeOK, Kept
<1>4. CASE ReconcileFeedback
  <2>1. Controllers /\ descriptor' \in [Params -> Descriptors] /\ to_control' = <<>>
    <3>1. engine \in Engines
      BY DEF TypeOK
    <3>2. CASE resync
      BY <1>4, <3>1, <3>2, SyncType DEF ReconcileFeedback
    <3>3. CASE ~resync
      BY <1>4, <3>3, DrainType DEF ReconcileFeedback
    <3> QED BY <3>2, <3>3
  <2>2. control' \in Controls
    BY <1>4 DEF ReconcileFeedback, Resumes, Goes, TypeOK, Controls
  <2>3. wants_pause' \in BOOLEAN
    BY <1>4 DEF ReconcileFeedback, Resumes, TypeOK
  <2> QED BY <1>4, <2>1, <2>2, <2>3, EmptyRing DEF ReconcileFeedback, TypeOK, Kept, Controllers
<1>5. CASE ReconcileNative
  <2>1. engine' \in Engines /\ writes' \in 0 .. MaxWrites
    BY <1>5, FlushHands DEF ReconcileNative, TypeOK, EngineInv, Handed, MaybeValues
  <2>2. Controllers /\ descriptor' \in [Params -> Descriptors]
    BY <1>5, <2>1, SyncType DEF ReconcileNative
  <2>3. control' \in Controls
    BY <1>5 DEF ReconcileNative, Resumes, Goes, TypeOK, Controls
  <2>4. wants_pause' \in BOOLEAN
    BY <1>5 DEF ReconcileNative, Resumes, TypeOK
  <2>5. overrides' \in [Params -> Maybe] /\ Cardinality(Kept') <= OverrideCapacity
    BY <1>5, NothingKept DEF ReconcileNative
  <2> QED BY <1>5, <2>1, <2>2, <2>3, <2>4, <2>5, EmptyRing DEF ReconcileNative, TypeOK, Controllers
<1>6. CASE CatchUp
  <2>1. CASE Behind = {}
    BY <1>6, <2>1 DEF CatchUp, Behind, Goes, TypeOK, Controls, Kept
  <2>2. CASE Behind # {}
    <3>1. ValuesOfBehind \in MaybeValues /\ PendingOfBehind \in MaybeValues
      BY DescriptorFields DEF ValuesOfBehind, PendingOfBehind, MaybeValues, Maybe, TypeOK
    <3>2. Flushed(Queued(engine, ValuesOfBehind)) /\ SyncMirror(engine', ValuesOfBehind)
      BY <1>6, <2>2 DEF CatchUp, Behind, ValuesOfBehind
    <3>3. engine' \in Engines /\ writes' \in 0 .. MaxWrites
      BY <3>1, <3>2, FlushHands DEF TypeOK, EngineInv, Handed
    <3>4. Controllers /\ descriptor' \in [Params -> Descriptors]
      BY <3>2, <3>3, SyncType
    <3>5. control' = [control EXCEPT !.at = "acknowledge", !.pass = @ + 1, !.read = PendingOfBehind]
      BY <1>6, <2>2 DEF CatchUp, Behind, PendingOfBehind
    <3>6. control.pass + 1 \in 0 .. CatchUpPasses
      BY <1>6, ControlFields DEF CatchUp, PauseInv, TypeOK, At
    <3>7. control' \in Controls
      <4> DEFINE pass == control.pass + 1
      <4>1. control' = [control EXCEPT !.at = "acknowledge", !.pass = pass, !.read = PendingOfBehind]
        BY <3>5
      <4> HIDE DEF pass
      <4>2. pass \in 0 .. CatchUpPasses
        BY <3>6 DEF pass
      <4> QED BY <3>1, <4>1, <4>2 DEF TypeOK, Controls, MaybeValues
    <3> QED BY <1>6, <3>3, <3>4, <3>7 DEF CatchUp, TypeOK, Kept, Controllers
  <2> QED BY <2>1, <2>2
<1>7. CASE CatchUpAcknowledge
  <2>1. \A p \in Params :
          [descriptor[p] EXCEPT !.applied = IF Reading(p) THEN control.read[p] ELSE @] \in Descriptors
    <3> TAKE p \in Params
    <3>1. descriptor[p] \in Descriptors /\ control.read[p] \in Maybe
      BY ControlFields DEF TypeOK, MaybeValues
    <3>2. (IF Reading(p) THEN control.read[p] ELSE descriptor[p].applied) \in Values
      BY <3>1 DEF Reading, Maybe, Descriptors
    <3> QED BY <3>1, <3>2 DEF Descriptors
  <2>2. descriptor' \in [Params -> Descriptors]
    BY <1>7, <2>1 DEF CatchUpAcknowledge
  <2>3. control' \in Controls
    BY <1>7, ValueFacts DEF CatchUpAcknowledge, Resumes, Goes, TypeOK, Controls, MaybeValues
  <2>4. wants_pause' \in BOOLEAN
    BY <1>7 DEF CatchUpAcknowledge, Resumes, TypeOK
  <2> QED BY <1>7, <2>2, <2>3, <2>4 DEF CatchUpAcknowledge, TypeOK, Kept
<1>8. ASSUME NEW p \in Params, PerformEdit(p) PROVE TypeOK'
  <2>1. writes + 1 \in Values /\ writes' \in 0 .. MaxWrites
    <3>1. Write
      BY <1>8 DEF PerformEdit
    <3> QED BY <3>1 DEF Write, TypeOK, Values
  <2> DEFINE v == writes + 1
  <2>2. /\ controller' = [controller EXCEPT ![p] = v] /\ refused' = refused \ {p}
        /\ control' = [control EXCEPT !.at = "publish", !.read = [NoValues EXCEPT ![p] = v]]
        /\ \/ /\ Len(to_dsp) < RingCapacity /\ to_dsp' = Append(to_dsp, [id |-> p, value |-> v])
              /\ overrides' = overrides /\ shutdown' = shutdown
           \/ /\ to_dsp' = to_dsp /\ (p \in Kept \/ Cardinality(Kept) < OverrideCapacity)
              /\ overrides' = [overrides EXCEPT ![p] = v] /\ shutdown' = shutdown
           \/ to_dsp' = to_dsp /\ overrides' = overrides /\ shutdown' = TRUE
    BY <1>8 DEF PerformEdit
  <2> HIDE DEF v
  <2>3. v \in Values
    BY <2>1 DEF v
  <2>4. Controllers
    BY <2>2, <2>3 DEF TypeOK, Controllers
  <2>5. [NoValues EXCEPT ![p] = v] \in MaybeValues
    BY <2>3, ValueFacts DEF MaybeValues, Maybe
  <2>6. control' \in Controls
    BY <2>2, <2>5 DEF TypeOK, Controls, MaybeValues
  <2>7. to_dsp' \in Seq(Updates) /\ Len(to_dsp') <= RingCapacity
    <3>1. CASE Len(to_dsp) < RingCapacity /\ to_dsp' = Append(to_dsp, [id |-> p, value |-> v])
      BY <2>3, <3>1, RingAppend DEF TypeOK
    <3>2. CASE to_dsp' = to_dsp
      BY <3>2 DEF TypeOK
    <3> QED BY <2>2, <3>1, <3>2
  <2>8. overrides' \in [Params -> Maybe] /\ Cardinality(Kept') <= OverrideCapacity
    <3>1. CASE overrides' = overrides
      BY <3>1 DEF TypeOK, Kept
    <3>2. CASE (p \in Kept \/ Cardinality(Kept) < OverrideCapacity) /\ overrides' = [overrides EXCEPT ![p] = v]
      BY <2>3, <3>2, KeepType
    <3> QED BY <2>2, <3>1, <3>2
  <2>9. shutdown' \in BOOLEAN
    BY <2>2 DEF TypeOK
  <2> QED BY <1>8, <2>1, <2>4, <2>6, <2>7, <2>8, <2>9 DEF PerformEdit, TypeOK, Controllers
<1>9. ASSUME NEW p \in Params, HostApply(p) PROVE TypeOK'
  <2> DEFINE v == descriptor[p].value
  <2>1. v \in Values
    BY DescriptorFields DEF TypeOK
  <2>2. /\ controller' = [controller EXCEPT ![p] = v] /\ refused' = refused \ {p}
        /\ Len(to_dsp) < RingCapacity /\ to_dsp' = Append(to_dsp, [id |-> p, value |-> v])
        /\ control' = [control EXCEPT !.at = "show", !.read[p] = v]
    BY <1>9 DEF HostApply
  <2> HIDE DEF v
  <2>3. Controllers
    BY <2>1, <2>2 DEF TypeOK, Controllers
  <2>4. control' \in Controls
    BY <2>1, <2>2 DEF TypeOK, Controls, Maybe
  <2>5. to_dsp' \in Seq(Updates) /\ Len(to_dsp') <= RingCapacity
    BY <2>1, <2>2, RingAppend DEF TypeOK
  <2> QED BY <1>9, <2>3, <2>4, <2>5 DEF HostApply, TypeOK, Kept, Controllers
<1>11. ASSUME NEW p \in Params, HostApplyLater(p) PROVE TypeOK'
  <2>1. control' = [control EXCEPT !.at = "host", !.read = NoValues, !.generation = 0]
    BY <1>11 DEF HostApplyLater
  <2>2. control' \in Controls
    BY <2>1, ValueFacts DEF TypeOK, Controls, MaybeValues
  <2>3. Controllers
    BY <1>11, DescriptorFields DEF HostApplyLater, TypeOK, Controllers
  <2> QED BY <1>11, <2>2, <2>3 DEF HostApplyLater, TypeOK, Kept, Controllers
<1>10. ASSUME NEW p \in Params, HostShow(p) PROVE TypeOK'
  <2>1. control.read[p] \in Values /\ control.generation \in Values
    BY <1>10, ControlFields DEF HostShow, Reading, TypeOK, MaybeValues, Maybe
  <2>2. descriptor' \in [Params -> Descriptors]
    <3> DEFINE r == control.read[p]
               g == control.generation
    <3>1. descriptor' = [descriptor EXCEPT ![p].current = r, ![p].applied = g]
      BY <1>10 DEF HostShow
    <3> HIDE DEF r, g
    <3>2. r \in Values /\ g \in Values /\ descriptor \in [Params -> Descriptors]
      BY <2>1 DEF r, g, TypeOK
    <3> QED BY <3>1, <3>2 DEF Descriptors
  <2>3. control' \in Controls
    BY <1>10, ValueFacts DEF HostShow, TypeOK, Controls, MaybeValues
  <2> QED BY <1>10, <2>2, <2>3 DEF HostShow, TypeOK, Kept
<1> QED BY <1>1, <1>2, <1>3, <1>4, <1>5, <1>6, <1>7, <1>8, <1>9, <1>10, <1>11

(* OBS keeps the types, of its two halves of a write. *)
LEMMA TypeObs ==
  ASSUME TypeOK, GenerationInv, (\E p \in Params : StoreValue(p)) \/ AdvanceGeneration
  PROVE  TypeOK'
<1>1. ASSUME NEW p \in Params, StoreValue(p) PROVE TypeOK'
  <2>1. writes + 1 \in Values /\ writes' \in 0 .. MaxWrites
    BY <1>1 DEF StoreValue, Write, TypeOK, Values
  <2>2. descriptor' \in [Params -> Descriptors]
    <3>1. descriptor \in [Params -> Descriptors]
      BY DEF TypeOK
    <3> QED BY <1>1, <2>1, <3>1 DEF StoreValue, Descriptors
  <2> QED BY <1>1, <2>1, <2>2 DEF StoreValue, TypeOK, Kept
<1>2. CASE AdvanceGeneration
  <2>1. obs \in Params
    BY <1>2 DEF AdvanceGeneration, TypeOK
  <2>2. descriptor[obs].pending + 1 \in Values
    BY <2>1, DescriptorFields DEF GenerationInv, TypeOK, Values
  <2>3. descriptor' \in [Params -> Descriptors]
    <3>1. descriptor \in [Params -> Descriptors]
      BY DEF TypeOK
    <3> QED BY <1>2, <2>1, <2>2, <3>1 DEF AdvanceGeneration, Descriptors
  <2> QED BY <1>2, <2>3 DEF AdvanceGeneration, TypeOK, Kept
<1> QED BY <1>1, <1>2

(* Every step keeps the types. *)
LEMMA TypeStep ==
  ASSUME ParameterInv, [Next]_vars
  PROVE  TypeOK'
<1>1. CASE UNCHANGED vars
  BY <1>1 DEF vars, ParameterInv, TypeOK, Kept
<1> QED BY <1>1, TypeWorker, TypeTurns, TypeValues, TypeObs DEF Next, Control, ParameterInv

-----------------------------------------------------------------------------
(***************************************************************************)
(* What the steps leave alone                                               *)
(***************************************************************************)
SlidersKept ==
    \A p \in Params : /\ descriptor'[p].value = descriptor[p].value
                      /\ descriptor'[p].pending = descriptor[p].pending
                      /\ descriptor'[p].applied = descriptor[p].applied

(* Showing a value leaves the slider its own half of the descriptor. *)
LEMMA ShowingKeepsSliders ==
  ASSUME TypeOK, NEW shown,
         descriptor' = [p \in Params |-> [descriptor[p] EXCEPT !.current = shown[p]]]
  PROVE  SlidersKept /\ \A p \in Params : descriptor'[p].current = shown[p]
BY DEF TypeOK, Descriptors, SlidersKept

(* The controller has what it was handed last, unless it has refused it; and *)
(* what it was not handed, it was not. *)
LEMMA HandBackEffect ==
  ASSUME TypeOK, NEW values, NEW held, HandBack(values, held), NEW p \in Params
  PROVE  /\ values[p] # None /\ p \notin refused' => controller'[p] = values[p]
         /\ values[p] = None /\ held[p] = {controller[p]} =>
              controller'[p] = controller[p] /\ (p \in refused' <=> p \in refused)
<1>1. controller'[p] # None /\ (controller'[p] = values[p] \/ controller'[p] \in held[p])
  BY ValueFacts DEF HandBack
<1>2. p \in refused' <=> IF values[p] # None THEN controller'[p] # values[p] ELSE p \in refused
  BY DEF HandBack
<1> QED BY <1>1, <1>2

(* A drain hands the controller what the ring leaves of the others, and shows it *)
(* to OBS whether the controller takes it or not. *)
LEMMA DrainEffect ==
  ASSUME TypeOK, NEW kept, DrainFeedback(kept)
  PROVE  /\ SlidersKept /\ to_control' = <<>>
         /\ \A p \in Params :
              /\ p \notin kept /\ Heard(p) # None =>
                   /\ p \notin refused' => controller'[p] = Heard(p)
                   /\ descriptor'[p].current = Heard(p)
              /\ p \in kept \/ Heard(p) = None =>
                   /\ controller'[p] = controller[p] /\ (p \in refused' <=> p \in refused)
                   /\ descriptor'[p].current = descriptor[p].current
<1> DEFINE heard == LastOf(to_control, kept)
           spared == [p \in Params |-> IF p \in kept THEN controller[p] ELSE None]
           shown == [p \in Params |-> IF heard[p] # None THEN heard[p] ELSE descriptor[p].current]
<1>1. \A p \in Params : heard[p] = IF p \in kept THEN None ELSE Heard(p)
  BY LastType DEF TypeOK, Heard
<1>2. HandBack(heard, Held(spared)) /\ descriptor' = Shown(heard) /\ to_control' = <<>>
  BY DEF DrainFeedback
<1>3. ASSUME NEW p \in Params, p \in kept \/ Heard(p) = None
      PROVE  Held(spared)[p] = {controller[p]}
  <2>1. CASE p \in kept
    <3>1. spared[p] = controller[p] /\ controller[p] # None
      BY <2>1, ValueFacts DEF TypeOK
    <3> HIDE DEF spared
    <3> QED BY <3>1 DEF Held
  <2>2. CASE p \notin kept
    <3>1. spared[p] = None
      BY <2>2
    <3>2. Mentions(to_control, p) = {}
      BY <1>3, <2>2, LastMention, ValueFacts DEF Heard, TypeOK
    <3> HIDE DEF spared
    <3> QED BY <3>1, <3>2 DEF Held, Mentions
  <2> QED BY <2>1, <2>2
<1> HIDE DEF heard, spared
<1>4. descriptor' = [p \in Params |-> [descriptor[p] EXCEPT !.current = shown[p]]]
  BY <1>2 DEF Shown
<1>5. SlidersKept /\ \A p \in Params : descriptor'[p].current = shown[p]
  <2> HIDE DEF shown
  <2> QED BY <1>4, ShowingKeepsSliders
<1>6. ASSUME NEW p \in Params
      PROVE  /\ p \notin kept /\ Heard(p) # None /\ p \notin refused' => controller'[p] = Heard(p)
             /\ p \in kept \/ Heard(p) = None =>
                  controller'[p] = controller[p] /\ (p \in refused' <=> p \in refused)
  BY <1>1, <1>2, <1>3, HandBackEffect
<1> QED BY <1>1, <1>2, <1>5, <1>6

(* A copy of the mirror hands it to the controller and shows it to OBS. *)
LEMMA SyncEffect ==
  ASSUME TypeOK, NEW e \in Engines, NEW edits, SyncMirror(e, edits)
  PROVE  /\ SlidersKept
         /\ \A p \in Params : p \notin refused' => controller'[p] = e.mirror[p]
         /\ \A p \in Params : descriptor'[p].current = e.mirror[p]
<1>1. \A p \in Params : e.mirror[p] # None
  BY ValueFacts DEF Engines
<1> QED BY <1>1, ShowingKeepsSliders, HandBackEffect DEF SyncMirror

(* The worker leaves the sliders and the control thread alone. *)
LEMMA WorkerFrame ==
  ASSUME ParameterInv, Worker
  PROVE  /\ SlidersKept /\ control' = control /\ obs' = obs /\ controller' = controller /\ refused' = refused
         /\ overrides' = overrides /\ wants_pause' = wants_pause /\ late' = late
         /\ writes \in Nat /\ writes' \in Nat /\ writes <= writes' /\ (shutdown => shutdown')
<1>0. TypeOK /\ writes \in 0 .. MaxWrites /\ engine \in Engines /\ Coherent(engine) /\ to_dsp \in Seq(Updates)
  BY DEF ParameterInv, TypeOK, EngineInv
<1>1. CASE DspBlock
  <2>1. PICK own \in OwnChanges : OwnWrite(own) /\ engine' = Processed(engine, own)
    BY <1>1 DEF DspBlock
  <2>2. writes <= writes' /\ writes' \in 0 .. MaxWrites
    BY <1>0, <2>1, BlockHands
  <2> QED BY <1>0, <1>1, <2>2 DEF DspBlock, SlidersKept
<1>2. CASE DspWake \/ FeedbackDone \/ Park \/ Unpark \/ DspFails
  BY <1>0, <1>2 DEF DspWake, FeedbackDone, Park, Unpark, DspFails, SlidersKept
<1>3. CASE Feedback
  <2> DEFINE p == CHOOSE q \in Params : engine.updates[q] # None
  <2>1. p \in Params /\ \E v : descriptor' = [descriptor EXCEPT ![p].current = v]
    BY <1>3 DEF Feedback
  <2> HIDE DEF p
  <2>2. SlidersKept
    BY <1>0, <2>1 DEF TypeOK, Descriptors, SlidersKept
  <2> QED BY <1>0, <1>3, <2>2 DEF Feedback
<1>4. CASE DspDrain
  <2> DEFINE sent == LastOf(to_dsp, {})
  <2>1. sent \in MaybeValues
    BY <1>0, LastType
  <2>2. Flushed(Queued(engine, sent)) \/ writes' = writes
    BY <1>4 DEF DspDrain
  <2> HIDE DEF sent
  <2>3. writes <= writes' /\ writes' \in 0 .. MaxWrites
    BY <1>0, <2>1, <2>2, FlushHands
  <2> QED BY <1>0, <1>4, <2>3 DEF DspDrain, SlidersKept
<1>5. CASE Settle
  <2>1. LastOf(to_dsp, {}) \in MaybeValues
    BY <1>0, LastType
  <2>2. writes <= writes' /\ writes' \in 0 .. MaxWrites
    BY <1>0, <1>5, <2>1, FlushHands DEF Settle
  <2> QED BY <1>0, <1>5, <2>2 DEF Settle, SlidersKept
<1> QED BY <1>1, <1>2, <1>3, <1>4, <1>5 DEF Worker

(* The control thread leaves the worker alone, and the sliders but for an *)
(* acknowledgement. *)
LEMMA ControlFrame ==
  ASSUME ParameterInv, Control
  PROVE  /\ obs' = obs /\ dsp' = dsp /\ (shutdown => shutdown') /\ (late => late')
         /\ writes \in Nat /\ writes' \in Nat /\ writes <= writes'
         /\ SlidersKept \/ CatchUpAcknowledge \/ \E p \in Params : HostShow(p)
<1>0. TypeOK /\ writes \in 0 .. MaxWrites /\ engine \in Engines /\ Coherent(engine)
      /\ overrides \in MaybeValues
  BY DEF ParameterInv, TypeOK, EngineInv, MaybeValues
<1>1. CASE TopDrain \/ TailDrain
  BY <1>0, <1>1, DrainEffect DEF TopDrain, TailDrain
<1>2. ASSUME NEW p \in Params, PerformEdit(p) PROVE writes' = writes + 1 /\ SlidersKept
  BY <1>2 DEF PerformEdit, Write, SlidersKept
<1>3. CASE PublishEdit
  <2> DEFINE shown == [p \in Params |-> IF control.read[p] # None THEN control.read[p] ELSE descriptor[p].current]
  <2>1. descriptor' = [p \in Params |-> [descriptor[p] EXCEPT !.current = shown[p]]]
    BY <1>3 DEF PublishEdit, Shown
  <2>2. SlidersKept
    <3> HIDE DEF shown
    <3> QED BY <1>0, <2>1, ShowingKeepsSliders
  <2> QED BY <1>0, <1>3, <2>2 DEF PublishEdit
<1>4. CASE \/ PumpDone \/ PauseGranted \/ PauseTimesOut \/ ResumeEnds \/ FrontierFails
           \/ NoStateRequest \/ StateRequest \/ Capture
  <2>1. descriptor' = descriptor /\ obs' = obs /\ dsp' = dsp /\ writes' = writes
    BY <1>4 DEF PumpDone, PauseGranted, PauseTimesOut, ResumeEnds, FrontierFails, NoStateRequest,
       StateRequest, Capture
  <2>2. shutdown' = shutdown \/ shutdown' = TRUE
    BY <1>4 DEF PumpDone, PauseGranted, PauseTimesOut, ResumeEnds, FrontierFails, NoStateRequest,
       StateRequest, Capture
  <2>3. late' = late \/ late' = TRUE
    BY <1>4 DEF PumpDone, PauseGranted, PauseTimesOut, ResumeEnds, FrontierFails, NoStateRequest,
       StateRequest, Capture
  <2>4. (shutdown => shutdown') /\ (late => late')
    BY <2>2, <2>3
  <2> QED BY <1>0, <2>1, <2>4 DEF SlidersKept
<1>5. CASE ReconcileFeedback
  <2>1. SlidersKept
    BY <1>0, <1>5, DrainEffect, SyncEffect DEF ReconcileFeedback
  <2> QED BY <1>0, <1>5, <2>1 DEF ReconcileFeedback
<1>6. CASE ReconcileNative
  <2>1. SlidersKept /\ writes <= writes' /\ writes' \in 0 .. MaxWrites
    <3>1. Flushed(Queued(engine, overrides)) /\ SyncMirror(engine', overrides) /\ overrides \in MaybeValues
      BY <1>0, <1>6 DEF ReconcileNative, TypeOK, MaybeValues
    <3>2. engine' \in Engines /\ writes <= writes' /\ writes' \in 0 .. MaxWrites
      BY <1>0, <3>1, FlushHands DEF Handed
    <3> QED BY <1>0, <3>1, <3>2, SyncEffect
  <2> QED BY <1>0, <1>6, <2>1 DEF ReconcileNative
<1>7. CASE CatchUp
  <2>1. CASE Behind = {}
    BY <1>0, <1>7, <2>1 DEF CatchUp, Behind, SlidersKept
  <2>2. CASE Behind # {}
    <3>1. ValuesOfBehind \in MaybeValues
      BY <1>0, DescriptorFields DEF ValuesOfBehind, MaybeValues, Maybe, TypeOK
    <3>2. Flushed(Queued(engine, ValuesOfBehind)) /\ SyncMirror(engine', ValuesOfBehind)
      BY <1>7, <2>2 DEF CatchUp, Behind, ValuesOfBehind
    <3>3. SlidersKept /\ writes <= writes' /\ writes' \in 0 .. MaxWrites
      <4>1. engine' \in Engines /\ writes <= writes' /\ writes' \in 0 .. MaxWrites
        BY <1>0, <3>1, <3>2, FlushHands DEF Handed
      <4> QED BY <1>0, <3>2, <4>1, SyncEffect
    <3> QED BY <1>0, <1>7, <3>3 DEF CatchUp
  <2> QED BY <2>1, <2>2
<1>8. CASE CatchUpAcknowledge
  <2>1. obs' = obs /\ dsp' = dsp /\ shutdown' = shutdown /\ late' = late /\ writes' = writes
    BY <1>8 DEF CatchUpAcknowledge
  <2> QED BY <1>0, <1>8, <2>1
<1>9. ASSUME NEW p \in Params, HostRead(p) \/ HostApply(p) \/ HostApplyLater(p) \/ HostShow(p)
      PROVE  /\ obs' = obs /\ dsp' = dsp /\ shutdown' = shutdown /\ late' = late /\ writes' = writes
             /\ SlidersKept \/ HostShow(p)
  BY <1>9 DEF HostRead, HostApply, HostApplyLater, HostShow, SlidersKept
<1>10. ASSUME NEW p \in Params, PerformEdit(p)
       PROVE  obs' = obs /\ dsp' = dsp /\ (shutdown => shutdown') /\ late' = late
  BY <1>10 DEF PerformEdit
<1> QED BY <1>0, <1>1, <1>2, <1>3, <1>4, <1>5, <1>6, <1>7, <1>8, <1>9, <1>10 DEF Control

-----------------------------------------------------------------------------
(***************************************************************************)
(* The engine, the generations and the pauses                               *)
(***************************************************************************)
LEMMA EngineStep ==
  ASSUME ParameterInv, [Next]_vars
  PROVE  EngineInv'
<1>0. TypeOK /\ EngineInv /\ PauseInv /\ writes \in 0 .. MaxWrites /\ engine \in Engines
      /\ Coherent(engine) /\ to_dsp \in Seq(Updates) /\ overrides \in MaybeValues
  BY DEF ParameterInv, TypeOK, EngineInv, MaybeValues
<1>1. CASE DspBlock
  <2>1. PICK own \in OwnChanges : OwnWrite(own) /\ engine' = Processed(engine, own)
    BY <1>1 DEF DspBlock
  <2>2. Handed(engine, NoValues, writes')
    BY <1>0, <2>1, BlockHands
  <2> QED BY <1>1, <2>2 DEF DspBlock, Handed, EngineInv, Settled
<1>2. CASE Feedback
  <2> DEFINE p == CHOOSE q \in Params : engine.updates[q] # None
  <2>1. engine' = [engine EXCEPT !.updates[p] = None] /\ p \in Params /\ dsp' = dsp
        /\ engine.updates[p] # None
    BY <1>2 DEF Feedback
  <2> HIDE DEF p
  <2>2. engine'.queued = engine.queued /\ engine'.mirror = engine.mirror /\ engine'.processor = engine.processor
    BY <1>0, <2>1 DEF Engines
  <2>3. \A q \in Params : engine'.updates[q] = IF q = p THEN None ELSE engine.updates[q]
    BY <1>0, <2>1 DEF Engines
  <2>4. dsp # "confirm"
    BY <1>2 DEF Feedback
  <2> QED BY <1>0, <2>1, <2>2, <2>3, <2>4 DEF EngineInv, Coherent
<1>3. CASE FeedbackDone
  BY <1>0, <1>3 DEF FeedbackDone, EngineInv, Settled
<1>4. CASE DspDrain
  <2> DEFINE sent == LastOf(to_dsp, {})
  <2>1. sent \in MaybeValues
    BY <1>0, LastType
  <2>2. /\ Flushed(Queued(engine, sent)) \/ engine' = Queued(engine, sent)
        /\ dsp' \in {"flushed", "wait"}
    BY <1>4 DEF DspDrain
  <2> HIDE DEF sent
  <2>3. Coherent(engine')
    BY <1>0, <2>1, <2>2, FlushHands, QueueHands DEF Handed
  <2> QED BY <2>2, <2>3 DEF EngineInv, Settled
<1>5. CASE Settle
  <2>1. LastOf(to_dsp, {}) \in MaybeValues
    BY <1>0, LastType
  <2>2. Handed(engine, LastOf(to_dsp, {}), writes') /\ engine'.queued = NoValues
    BY <1>0, <1>5, <2>1, FlushHands DEF Settle
  <2> QED BY <1>5, <2>2 DEF Settle, Handed, EngineInv
<1>6. CASE DspWake \/ Park \/ Unpark \/ DspFails
  BY <1>0, <1>6 DEF DspWake, Park, Unpark, DspFails, EngineInv, Settled
<1>7. CASE ReconcileNative
  <2>1. dsp' = "parked"
    BY <1>0, <1>7 DEF ReconcileNative, PauseInv, At, Granted
  <2>2. Handed(engine, overrides, writes') /\ engine'.queued = NoValues
    BY <1>0, <1>7, FlushHands DEF ReconcileNative
  <2> QED BY <2>1, <2>2 DEF Handed, EngineInv
<1>8. CASE CatchUp
  <2>1. CASE Behind = {}
    BY <1>0, <1>8, <2>1 DEF CatchUp, Behind, EngineInv
  <2>2. CASE Behind # {}
    <3>1. ValuesOfBehind \in MaybeValues
      BY <1>0, DescriptorFields DEF ValuesOfBehind, MaybeValues, Maybe, TypeOK
    <3>2. Flushed(Queued(engine, ValuesOfBehind))
      BY <1>8, <2>2 DEF CatchUp, Behind, ValuesOfBehind
    <3>3. Handed(engine, ValuesOfBehind, writes') /\ engine'.queued = NoValues
      BY <1>0, <3>1, <3>2, FlushHands
    <3>4. dsp' = "parked"
      BY <1>0, <1>8 DEF CatchUp, PauseInv, At, Granted, Frontier
    <3> QED BY <3>3, <3>4 DEF Handed, EngineInv
  <2> QED BY <2>1, <2>2
<1>9. CASE engine' = engine /\ dsp' = dsp
  BY <1>0, <1>9 DEF EngineInv
<1>10. ASSUME NEW p \in Params, StoreValue(p) \/ PerformEdit(p) \/ HostRead(p) \/ HostApply(p) \/ HostApplyLater(p) \/ HostShow(p)
       PROVE  engine' = engine /\ dsp' = dsp
  BY <1>10 DEF StoreValue, PerformEdit, HostRead, HostApply, HostApplyLater, HostShow
<1>11. CASE \/ TopDrain \/ TailDrain \/ PublishEdit \/ ReconcileFeedback \/ CatchUpAcknowledge \/ PumpDone
            \/ PauseGranted \/ PauseTimesOut \/ ResumeEnds \/ FrontierFails \/ NoStateRequest
            \/ StateRequest \/ Capture \/ AdvanceGeneration
  BY <1>9, <1>11 DEF TopDrain, TailDrain, PublishEdit, ReconcileFeedback, CatchUpAcknowledge, PumpDone,
     PauseGranted, PauseTimesOut, ResumeEnds, FrontierFails, NoStateRequest, StateRequest, Capture,
     AdvanceGeneration
<1>12. CASE UNCHANGED vars
  BY <1>9, <1>12 DEF vars
<1> QED BY <1>1, <1>2, <1>3, <1>4, <1>5, <1>6, <1>7, <1>8, <1>9, <1>10, <1>11, <1>12 DEF Next, Worker, Control

(* Values and generations are numbers that can be compared. *)
LEMMA Numbers ==
  ASSUME TypeOK, NEW p \in Params
  PROVE  /\ descriptor[p].value \in Nat /\ descriptor[p].pending \in Nat /\ descriptor[p].applied \in Nat
         /\ descriptor[p].current \in Values /\ control.generation \in Nat /\ writes \in Nat
         /\ control.read[p] \in Maybe /\ (Reading(p) => control.read[p] \in Nat)
<1>1. control.read \in MaybeValues /\ control.generation \in Values
  BY ControlFields DEF TypeOK
<1>2. control.read[p] \in Maybe
  BY <1>1 DEF MaybeValues
<1> QED BY <1>1, <1>2, DescriptorFields, ValueFacts DEF TypeOK, Reading, Maybe

\* One parameter's part of GenerationInv.
Counted(p) ==
    /\ descriptor[p].applied <= descriptor[p].pending
    /\ descriptor[p].pending <= writes /\ descriptor[p].value <= writes
    /\ obs = p => descriptor[p].pending < writes
Claimed(p) ==
    /\ control.at \in {"apply", "show"} /\ Reading(p) =>
         /\ descriptor[p].applied < control.generation
         /\ control.generation <= descriptor[p].pending
    /\ At("acknowledge") /\ Reading(p) =>
         descriptor[p].applied <= control.read[p] /\ control.read[p] <= descriptor[p].pending
OneReading == control.at \in {"apply", "show"} => \A p, q \in Params : Reading(p) /\ Reading(q) => p = q

(* GenerationInv, parameter by parameter. *)
LEMMA GenerationParts ==
  GenerationInv <=> (\A p \in Params : Counted(p) /\ Claimed(p)) /\ OneReading
BY DEF GenerationInv, Counted, Claimed, OneReading

(* Where nothing is claimed. *)
LEMMA Unclaimed ==
  control.at \notin {"apply", "show", "acknowledge"} => OneReading /\ \A p \in Params : Claimed(p)
BY DEF OneReading, Claimed, At

(* Every step keeps GenerationInv: the generation claimed was read before the *)
(* value. *)
LEMMA GenerationStep ==
  ASSUME ParameterInv, [Next]_vars
  PROVE  GenerationInv'
<1>0. TypeOK /\ GenerationInv /\ PauseInv /\ control \in Controls
  BY DEF ParameterInv, TypeOK
<1>00. TypeOK'
  BY TypeStep
<1>000. (\A p \in Params : Counted(p) /\ Claimed(p)) /\ OneReading
  BY <1>0, GenerationParts
<1>1. ASSUME NEW q \in Params, StoreValue(q) PROVE GenerationInv'
  <2>1. writes' = writes + 1 /\ obs' = q /\ control' = control /\ obs = None
    BY <1>1 DEF StoreValue, Write
  <2>2. \A p \in Params : /\ descriptor'[p].value = IF p = q THEN writes' ELSE descriptor[p].value
                          /\ descriptor'[p].pending = descriptor[p].pending
                          /\ descriptor'[p].applied = descriptor[p].applied
    BY <1>0, <1>1, <2>1 DEF StoreValue, TypeOK, Descriptors
  <2>3. \A p \in Params : Counted(p)'
    BY <1>0, <1>000, <2>1, <2>2, Numbers DEF Counted
  <2>4. OneReading' /\ \A p \in Params : Claimed(p)'
    BY <1>000, <2>1, <2>2 DEF OneReading, Claimed, Reading, At
  <2> QED BY <2>3, <2>4 DEF GenerationInv, Counted, Claimed, OneReading
<1>2. CASE AdvanceGeneration
  <2>1. obs \in Params /\ obs' = None /\ control' = control /\ writes' = writes
    BY <1>0, <1>2 DEF AdvanceGeneration, TypeOK
  <2>2. \A p \in Params : /\ descriptor'[p].value = descriptor[p].value
                          /\ descriptor'[p].pending = IF p = obs THEN descriptor[p].pending + 1 ELSE descriptor[p].pending
                          /\ descriptor'[p].applied = descriptor[p].applied
    BY <1>0, <1>2, <2>1 DEF AdvanceGeneration, TypeOK, Descriptors
  <2>3. \A p \in Params : Counted(p)'
    BY <1>0, <1>000, <2>1, <2>2, Numbers, ValueFacts DEF Counted
  <2>4. OneReading' /\ \A p \in Params : Claimed(p)'
    BY <1>0, <1>000, <2>1, <2>2, Numbers DEF OneReading, Claimed, Reading, At
  <2> QED BY <2>3, <2>4 DEF GenerationInv, Counted, Claimed, OneReading
<1>3. ASSUME SlidersKept, obs' = obs, writes <= writes', writes' \in Nat PROVE \A p \in Params : Counted(p)'
  BY <1>0, <1>000, <1>3, Numbers DEF SlidersKept, Counted
<1>4. CASE Worker
  <2>1. SlidersKept /\ obs' = obs /\ writes <= writes' /\ writes' \in Nat /\ control' = control
    BY <1>4, WorkerFrame
  <2>2. OneReading' /\ \A p \in Params : Claimed(p)'
    BY <1>000, <2>1 DEF SlidersKept, OneReading, Claimed, Reading, At
  <2> QED BY <1>3, <2>1, <2>2 DEF GenerationInv, Counted, Claimed, OneReading
<1>5. ASSUME Control, control'.at \notin {"apply", "show", "acknowledge"},
             ~CatchUpAcknowledge, \A p \in Params : ~HostShow(p)
      PROVE  GenerationInv'
  <2>1. SlidersKept /\ obs' = obs /\ writes <= writes' /\ writes' \in Nat
    BY <1>5, ControlFrame
  <2>2. OneReading' /\ \A p \in Params : Claimed(p)'
    BY <1>5 DEF OneReading, Claimed, At
  <2> QED BY <1>3, <2>1, <2>2 DEF GenerationInv, Counted, Claimed, OneReading
<1>6. CASE \/ TopDrain \/ TailDrain \/ PublishEdit \/ ReconcileFeedback \/ ReconcileNative \/ PumpDone
           \/ PauseGranted \/ PauseTimesOut \/ ResumeEnds \/ FrontierFails \/ NoStateRequest
           \/ StateRequest \/ Capture \/ \E p \in Params : PerformEdit(p) \/ HostApplyLater(p)
  <2>1. control'.at \notin {"apply", "show", "acknowledge"}
    BY <1>0, <1>6, ControlSteps DEF AsksFor, Moves, Hosts, Returns, Turns
  <2>2. ~CatchUpAcknowledge /\ \A p \in Params : ~HostShow(p)
    <3>1. control.at \notin {"acknowledge", "show"}
      BY <1>6 DEF TopDrain, TailDrain, PublishEdit, ReconcileFeedback, ReconcileNative, PumpDone,
         PauseGranted, PauseTimesOut, ResumeEnds, FrontierFails, NoStateRequest, StateRequest, Capture,
         PerformEdit, HostApplyLater, At
    <3> QED BY <3>1 DEF CatchUpAcknowledge, HostShow, At
  <2>3. Control
    BY <1>6 DEF Control
  <2> QED BY <1>5, <2>1, <2>2, <2>3
<1>7. ASSUME NEW q \in Params, HostRead(q) PROVE GenerationInv'
  <2>1. SlidersKept /\ obs' = obs /\ writes' = writes /\ At("host")
    BY <1>7 DEF HostRead, SlidersKept
  <2>2. \A p \in Params : Counted(p)'
    BY <1>0, <1>3, <2>1 DEF TypeOK
  <2>3. CASE descriptor[q].pending = descriptor[q].applied
    <3>1. control'.at = "host"
      BY <1>0, <1>7, <2>3, ControlSteps DEF Hosts, Turns
    <3> QED BY <2>2, <3>1 DEF GenerationInv, Counted, At
  <2>4. CASE descriptor[q].pending # descriptor[q].applied
    <3>1. control'.at = "apply" /\ control'.read = [NoValues EXCEPT ![q] = 0]
          /\ control'.generation = descriptor[q].pending
      BY <1>0, <1>7, <2>4, ControlSteps DEF Hosts, Turns
    <3>2. \A p \in Params : Reading(p)' => p = q
      BY <3>1, ValueFacts DEF Reading, MaybeValues
    <3>3. descriptor[q].applied < descriptor[q].pending
      BY <1>0, <1>000, <2>4, Numbers DEF Counted
    <3>4. OneReading' /\ \A p \in Params : Claimed(p)'
      BY <1>0, <2>1, <3>1, <3>2, <3>3, Numbers DEF OneReading, Claimed, At, SlidersKept
    <3> QED BY <2>2, <3>4 DEF GenerationInv, Counted, Claimed, OneReading
  <2> QED BY <2>3, <2>4
<1>8. ASSUME NEW q \in Params, HostApply(q) PROVE GenerationInv'
  <2>1. SlidersKept /\ obs' = obs /\ writes' = writes /\ At("apply") /\ Reading(q)
    BY <1>8 DEF HostApply, SlidersKept
  <2>2. \A p \in Params : Counted(p)'
    BY <1>0, <1>3, <2>1 DEF TypeOK
  <2>3. control'.at = "show" /\ control'.read = [control.read EXCEPT ![q] = descriptor[q].value]
        /\ control'.generation = control.generation
    BY <1>0, <1>8, ControlSteps DEF Moves, Turns
  <2>4. \A p \in Params : Reading(p)' => p = q
    <3>1. control.read \in MaybeValues
      BY <1>0, ControlFields
    <3> QED BY <1>000, <2>1, <2>3, <3>1 DEF OneReading, Reading, At, MaybeValues
  <2>5. OneReading' /\ \A p \in Params : Claimed(p)'
    BY <1>000, <2>1, <2>3, <2>4 DEF OneReading, Claimed, At, SlidersKept
  <2> QED BY <2>2, <2>5 DEF GenerationInv, Counted, Claimed, OneReading
<1>9. ASSUME NEW q \in Params, HostShow(q) PROVE GenerationInv'
  <2>1. obs' = obs /\ writes' = writes /\ At("show") /\ Reading(q) /\ control'.at = "host"
    BY <1>0, <1>9, ControlSteps DEF HostShow, Hosts, Turns
  <2>2. \A p \in Params : /\ descriptor'[p].value = descriptor[p].value
                          /\ descriptor'[p].pending = descriptor[p].pending
                          /\ descriptor'[p].applied = IF p = q THEN control.generation ELSE descriptor[p].applied
    BY <1>0, <1>9 DEF HostShow, TypeOK, Descriptors
  <2>3. \A p \in Params : Counted(p)'
    BY <1>0, <1>000, <2>1, <2>2, Numbers DEF Counted, Claimed, At
  <2> QED BY <2>1, <2>3 DEF GenerationInv, Counted, At
<1>10. CASE CatchUp
  <2>1. SlidersKept /\ obs' = obs /\ writes <= writes' /\ writes' \in Nat
    <3>1. At("catch_up") /\ Control
      BY <1>10 DEF CatchUp, Control
    <3> QED BY <3>1, ControlFrame DEF CatchUpAcknowledge, HostShow, At
  <2>2. \A p \in Params : Counted(p)'
    BY <1>3, <2>1
  <2>3. CASE Behind = {}
    <3>1. control'.at = "capture"
      BY <1>0, <1>10, <2>3, ControlSteps DEF Moves, Turns
    <3> QED BY <2>2, <3>1 DEF GenerationInv, Counted, At
  <2>4. CASE Behind # {}
    <3>1. control'.at = "acknowledge" /\ control'.read = PendingOfBehind
      BY <1>0, <1>10, <2>4, ControlSteps DEF Turns
    <3>2. \A p \in Params : Claimed(p)'
      BY <1>0, <1>000, <2>1, <3>1, Numbers DEF Claimed, Counted, Reading, At, PendingOfBehind, SlidersKept
    <3> QED BY <2>2, <3>1, <3>2 DEF GenerationInv, Counted, Claimed, OneReading
  <2> QED BY <2>3, <2>4
<1>11. CASE CatchUpAcknowledge
  <2>1. obs' = obs /\ writes' = writes /\ At("acknowledge")
    BY <1>11 DEF CatchUpAcknowledge
  <2>2. \A p \in Params : /\ descriptor'[p].value = descriptor[p].value
                          /\ descriptor'[p].pending = descriptor[p].pending
                          /\ descriptor'[p].applied = IF Reading(p) THEN control.read[p] ELSE descriptor[p].applied
    BY <1>0, <1>11 DEF CatchUpAcknowledge, TypeOK, Descriptors
  <2>3. control'.at \in {"capture", "catch_up", "resuming"}
    BY <1>0, <1>11, ControlSteps DEF Moves, Turns
  <2>4. \A p \in Params : Counted(p)'
    BY <1>0, <1>000, <2>1, <2>2, Numbers DEF Counted, Claimed
  <2> QED BY <2>3, <2>4 DEF GenerationInv, Counted, At
<1>12. CASE UNCHANGED vars
  BY <1>0, <1>12 DEF vars, GenerationInv, Reading, At
<1> QED BY <1>1, <1>2, <1>4, <1>6, <1>7, <1>8, <1>9, <1>10, <1>11, <1>12 DEF Next, Control

(* A parked worker is woken only by the control thread, and no command leaves  *)
(* it a block to process before. *)
LEMMA ParkedWaits ==
  ASSUME PauseInv, control.at \in Granted, Worker
  PROVE  FALSE
<1>1. dsp = "parked" /\ wants_pause
  BY DEF PauseInv, Pausing
<1> QED BY <1>1 DEF Worker, DspBlock, DspWake, Feedback, FeedbackDone, DspDrain, Settle, Park, Unpark,
     DspFails

(* Every step keeps PauseInv: the control thread is behind a pause as long as *)
(* it asks for one. *)
LEMMA PauseStep ==
  ASSUME ParameterInv, [Next]_vars
  PROVE  PauseInv'
<1>0. TypeOK /\ PauseInv /\ control \in Controls /\ control.pass \in Nat /\ wants_pause \in BOOLEAN
  BY ControlFields DEF ParameterInv, TypeOK
<1> USE <1>0 DEF Pausing, Granted, Frontier, At
<1>1. CASE (\E p \in Params : StoreValue(p)) \/ AdvanceGeneration \/ UNCHANGED vars
  <2>1. /\ wants_pause' = wants_pause /\ control' = control /\ dsp' = dsp /\ to_control' = to_control
        /\ resync' = resync /\ Kept' = Kept
    BY <1>1 DEF StoreValue, AdvanceGeneration, vars, Kept
  <2> QED BY <2>1 DEF PauseInv
<1>2. CASE Worker
  <2>1. control' = control /\ wants_pause' = wants_pause /\ Kept' = Kept
    BY <1>2, WorkerFrame DEF Kept
  <2>2. control.at \notin Granted
    BY <1>2, ParkedWaits
  <2> QED BY <2>1, <2>2 DEF PauseInv
<1>3. CASE TopDrain \/ TailDrain \/ PumpDone \/ StateRequest \/ NoStateRequest
  <2>1. overrides' = overrides /\ dsp' = dsp /\ control.pass = 0 /\ control.at \notin Pausing
    BY <1>3 DEF TopDrain, TailDrain, PumpDone, StateRequest, NoStateRequest, PauseInv
  <2>2. Kept' = Kept
    BY <2>1 DEF Kept
  <2>3. CASE TopDrain
    <3>1. CASE Kept = {} /\ resync
      <4>1. AsksFor("resync") /\ wants_pause' = TRUE
        BY <2>3, <3>1, ControlSteps DEF TopDrain
      <4> QED BY <2>1, <2>2, <3>1, <4>1 DEF PauseInv, AsksFor, Turns
    <3>2. CASE ~(Kept = {} /\ resync)
      <4>1. Moves("pump", control.read) /\ wants_pause' = wants_pause
        BY <2>3, <3>2, ControlSteps DEF TopDrain
      <4> QED BY <2>1, <4>1 DEF PauseInv, Moves, Turns
    <3> QED BY <3>1, <3>2
  <2>4. CASE TailDrain
    <3>1. Turns("top", "none", FALSE, {}, NoValues, 0, 0) /\ wants_pause' = wants_pause
      BY <2>4, ControlSteps DEF TailDrain
    <3> QED BY <2>1, <3>1 DEF PauseInv, Turns
  <2>5. CASE PumpDone
    <3>1. CASE Kept # {}
      <4>1. AsksFor("native") /\ wants_pause' = TRUE
        BY <2>5, <3>1, ControlSteps DEF PumpDone
      <4> QED BY <2>1, <2>2, <3>1, <4>1 DEF PauseInv, AsksFor, Turns
    <3>2. CASE Kept = {}
      <4>1. control'.at = "host" /\ control'.pass = control.pass /\ wants_pause' = wants_pause
        BY <2>5, <3>2, ControlSteps DEF PumpDone, Hosts, Turns
      <4> QED BY <2>1, <4>1 DEF PauseInv
    <3> QED BY <3>1, <3>2
  <2>6. CASE StateRequest
    <3>1. AsksFor("state") /\ wants_pause' = TRUE
      BY <2>6, ControlSteps DEF StateRequest
    <3> QED BY <2>1, <2>2, <3>1 DEF PauseInv, AsksFor, Turns
  <2>7. CASE NoStateRequest
    <3>1. control'.at = "tail" /\ control'.pass = control.pass /\ wants_pause' = wants_pause
      BY <2>7, ControlSteps DEF NoStateRequest, Turns
    <3> QED BY <2>1, <3>1 DEF PauseInv
  <2> QED BY <1>3, <2>3, <2>4, <2>5, <2>6, <2>7
<1>4. ASSUME NEW p \in Params, PerformEdit(p) \/ HostRead(p) \/ HostApply(p) \/ HostApplyLater(p) \/ HostShow(p) PROVE PauseInv'
  <2>1. wants_pause' = wants_pause /\ control.pass = 0 /\ ~wants_pause
    BY <1>4 DEF PerformEdit, HostRead, HostApply, HostApplyLater, HostShow, PauseInv
  <2>2. control'.at \in {"publish", "host", "apply", "show"} /\ control'.pass = control.pass
    BY <1>4, ControlSteps DEF Moves, Hosts, Turns
  <2> QED BY <2>1, <2>2 DEF PauseInv
<1>5. CASE PublishEdit
  <2>1. wants_pause' = wants_pause /\ control.pass = 0 /\ ~wants_pause
    BY <1>5 DEF PublishEdit, PauseInv
  <2>2. Moves("pump", NoValues)
    BY <1>5, ControlSteps
  <2> QED BY <2>1, <2>2 DEF PauseInv, Moves, Turns
<1>6. CASE PauseGranted
  <2>1. wants_pause' = wants_pause /\ dsp' = dsp /\ Kept' = Kept /\ dsp = "parked" /\ control.at = "pausing"
    BY <1>6 DEF PauseGranted, Kept
  <2>2. Moves("paused", control.read)
    BY <1>6, ControlSteps
  <2> QED BY <2>1, <2>2 DEF PauseInv, Moves, Turns
<1>7. CASE PauseTimesOut \/ ResumeEnds
  <2>1. Returns
    BY <1>7, ControlSteps
  <2>2. wants_pause' = FALSE
    BY <1>7 DEF PauseTimesOut, ResumeEnds, PauseInv
  <2> QED BY <2>1, <2>2 DEF PauseInv, Returns, Turns
<1>8. CASE FrontierFails \/ Capture
  <2>1. wants_pause' = FALSE /\ control.why # "none"
    BY <1>8 DEF FrontierFails, Capture, Resumes, PauseInv
  <2>2. control'.at = "resuming" /\ control'.why = control.why
    BY <1>8, ControlSteps DEF Moves, Turns
  <2> QED BY <2>1, <2>2 DEF PauseInv
<1>9. CASE ReconcileFeedback
  <2>1. /\ to_control' = <<>> /\ resync' = FALSE /\ Kept = {} /\ overrides' = overrides /\ dsp' = dsp
        /\ control.at = "paused" /\ control.why \in {"resync", "state"}
    BY <1>9 DEF ReconcileFeedback, DrainFeedback
  <2>2. Kept' = {}
    BY <2>1 DEF Kept
  <2>3. CASE control.why = "resync"
    <3>1. Moves("resuming", control.read) /\ wants_pause' = FALSE
      BY <1>9, <2>3, ControlSteps DEF ReconcileFeedback, Resumes
    <3> QED BY <2>3, <3>1 DEF PauseInv, Moves, Turns
  <2>4. CASE control.why = "state"
    <3>1. Moves("catch_up", control.read) /\ wants_pause' = wants_pause
      BY <1>9, <2>4, ControlSteps DEF ReconcileFeedback
    <3> QED BY <2>1, <2>2, <2>4, <3>1 DEF PauseInv, Moves, Turns
  <2> QED BY <2>1, <2>3, <2>4
<1>10. CASE ReconcileNative
  <2>1. to_control' = <<>> /\ resync' = FALSE /\ Kept # {} /\ dsp' = dsp /\ control.at = "paused"
    BY <1>10 DEF ReconcileNative
  <2>2. Kept' = {}
    BY <1>10, NothingKept DEF ReconcileNative
  <2>3. control.why \in {"native", "state"}
    BY <2>1, ControlFields DEF PauseInv, Reasons
  <2>4. CASE control.why = "native"
    <3>1. Moves("resuming", control.read) /\ wants_pause' = FALSE
      BY <1>10, <2>4, ControlSteps DEF ReconcileNative, Resumes
    <3> QED BY <2>4, <3>1 DEF PauseInv, Moves, Turns
  <2>5. CASE control.why = "state"
    <3>1. Moves("catch_up", control.read) /\ wants_pause' = wants_pause
      BY <1>10, <2>5, ControlSteps DEF ReconcileNative
    <3> QED BY <2>1, <2>2, <2>5, <3>1 DEF PauseInv, Moves, Turns
  <2> QED BY <2>3, <2>4, <2>5
<1>11. CASE CatchUp
  <2>1. /\ to_control' = to_control /\ resync' = resync /\ overrides' = overrides /\ dsp' = dsp
        /\ control.at = "catch_up" /\ wants_pause' = wants_pause
    BY <1>11 DEF CatchUp
  <2>2. Kept' = Kept
    BY <2>1 DEF Kept
  <2>3. control'.at \in {"capture", "acknowledge"} /\ control'.why = control.why
    BY <1>11, ControlSteps DEF Moves, Turns
  <2> QED BY <2>1, <2>2, <2>3 DEF PauseInv
<1>12. CASE CatchUpAcknowledge
  <2>1. /\ to_control' = to_control /\ resync' = resync /\ overrides' = overrides /\ dsp' = dsp
        /\ control.at = "acknowledge"
    BY <1>12 DEF CatchUpAcknowledge
  <2>2. Kept' = Kept
    BY <2>1 DEF Kept
  <2>3. CASE AllAcknowledged' \/ control.pass < CatchUpPasses
    <3>1. wants_pause' = wants_pause
      BY <1>12, <2>3 DEF CatchUpAcknowledge, AllAcknowledged
    <3>2. Moves(IF AllAcknowledged' THEN "capture" ELSE "catch_up", NoValues)
      BY <1>12, <2>3, ControlSteps
    <3>3. CASE AllAcknowledged'
      <4>1. Moves("capture", NoValues)
        BY <3>2, <3>3
      <4> QED BY <2>1, <2>2, <3>1, <4>1 DEF PauseInv, Moves, Turns
    <3>4. CASE ~AllAcknowledged'
      <4>1. Moves("catch_up", NoValues)
        BY <3>2, <3>4
      <4> QED BY <2>1, <2>2, <2>3, <3>1, <3>4, <4>1 DEF PauseInv, Moves, Turns
    <3> QED BY <3>3, <3>4
  <2>4. CASE ~(AllAcknowledged' \/ control.pass < CatchUpPasses)
    <3>1. Moves("resuming", control.read)
      BY <1>12, <2>4, ControlSteps
    <3>2. wants_pause' = FALSE
      BY <1>12, <2>4 DEF CatchUpAcknowledge, AllAcknowledged, Resumes
    <3> QED BY <2>1, <3>1, <3>2 DEF PauseInv, Moves, Turns
  <2> QED BY <2>3, <2>4
<1> QED BY <1>1, <1>2, <1>3, <1>4, <1>5, <1>6, <1>7, <1>8, <1>9, <1>10, <1>11, <1>12 DEF Next, Control

-----------------------------------------------------------------------------
(***************************************************************************)
(* The flow of values                                                       *)
(***************************************************************************)
\* A step after which p is still was taken while p was still, and changed
\* nothing of it.
KeepsStill(p) ==
    Still(p)' => /\ Still(p) /\ engine'.mirror[p] = engine.mirror[p]
                 /\ descriptor'[p].current = descriptor[p].current

(* A call of the plug-in, with what the ring held or without. *)
LEMMA HandedFlow ==
  ASSUME FlowInv, dsp # "parked", dsp' # "parked", NEW sent, NEW n, Handed(engine, sent, n),
         descriptor' = descriptor, shutdown' = shutdown, overrides' = overrides,
         to_control' = to_control, resync' = resync,
         \/ to_dsp' = to_dsp
         \/ \A q \in Params : sent[q] = Sent(q)
  PROVE  \A p \in Params : KeepsStill(p) /\ HeardMirror(p)'
<1>1. Kept' = Kept
  BY DEF Kept
<1>2. SUFFICES ASSUME NEW p \in Params PROVE KeepsStill(p) /\ HeardMirror(p)'
  OBVIOUS
<1>3. \/ sent[p] = None /\ engine'.mirror[p] = engine.mirror[p] /\ engine'.updates[p] = engine.updates[p]
      \/ engine'.updates[p] # None
  BY DEF Handed
<1>4. Sent(p)' = None => Sent(p) = None \/ sent[p] = Sent(p)
  BY DEF Sent
<1>5. Heard(p)' = Heard(p) /\ HeardMirror(p)
  BY DEF Heard, FlowInv
<1>6. KeepsStill(p)
  BY <1>1, <1>3, <1>4, <1>5 DEF KeepsStill, Still, Delivering
<1>7. HeardMirror(p)'
  BY <1>3, <1>5 DEF HeardMirror, Delivering
<1> QED BY <1>6, <1>7

(* No step of the worker makes a parameter still, or loses its last update. *)
LEMMA WorkerFlow ==
  ASSUME ParameterInv, Worker
  PROVE  \A p \in Params : KeepsStill(p) /\ HeardMirror(p)'
<1>0. TypeOK /\ EngineInv /\ FlowInv /\ writes \in 0 .. MaxWrites /\ engine \in Engines
      /\ Coherent(engine) /\ to_dsp \in Seq(Updates) /\ to_control \in Seq(Updates)
  BY DEF ParameterInv, TypeOK, EngineInv
<1>1. CASE DspBlock
  <2>1. PICK own \in OwnChanges : OwnWrite(own) /\ engine' = Processed(engine, own)
    BY <1>1 DEF DspBlock
  <2>2. Handed(engine, NoValues, writes')
    BY <1>0, <2>1, BlockHands
  <2> QED BY <1>0, <1>1, <2>2, HandedFlow DEF DspBlock
<1>2. CASE DspDrain
  <2> DEFINE sent == LastOf(to_dsp, {})
  <2>1. sent \in MaybeValues /\ \A q \in Params : sent[q] = Sent(q)
    BY <1>0, LastType DEF Sent
  <2>2. /\ Flushed(Queued(engine, sent)) \/ engine' = Queued(engine, sent)
        /\ dsp' \in {"flushed", "wait"}
    BY <1>2 DEF DspDrain
  <2> HIDE DEF sent
  <2>3. Handed(engine, sent, writes')
    BY <1>0, <2>1, <2>2, FlushHands, QueueHands
  <2> QED BY <1>0, <1>2, <2>1, <2>2, <2>3, HandedFlow DEF DspDrain
<1>3. CASE Settle
  <2> DEFINE sent == LastOf(to_dsp, {})
  <2>1. sent \in MaybeValues /\ \A q \in Params : sent[q] = Sent(q)
    BY <1>0, LastType DEF Sent
  <2>2. Flushed(Queued(engine, sent)) /\ dsp' = "settled"
    BY <1>3 DEF Settle
  <2> HIDE DEF sent
  <2>3. Handed(engine, sent, writes')
    BY <1>0, <2>1, <2>2, FlushHands
  <2> QED BY <1>0, <1>3, <2>1, <2>2, <2>3, HandedFlow DEF Settle
<1>4. CASE DspWake \/ FeedbackDone \/ Park \/ Unpark \/ DspFails
  <2>1. /\ engine' = engine /\ to_dsp' = to_dsp /\ to_control' = to_control /\ resync' = resync
        /\ overrides' = overrides /\ descriptor' = descriptor
    BY <1>4 DEF DspWake, FeedbackDone, Park, Unpark, DspFails
  <2>2. shutdown' = shutdown \/ shutdown' = TRUE
    BY <1>4 DEF DspWake, FeedbackDone, Park, Unpark, DspFails
  <2>3. \/ dsp' = "parked" /\ dsp = "confirm" /\ engine.updates = NoValues
        \/ dsp' # "parked"
    BY <1>0, <1>4 DEF DspWake, FeedbackDone, Park, Unpark, DspFails, EngineInv
  <2>4. \A p \in Params : Delivering(p) => Delivering(p)'
    BY <2>1, <2>3, ValueFacts DEF Delivering
  <2>5. ASSUME NEW p \in Params PROVE KeepsStill(p) /\ HeardMirror(p)'
    <3>1. Sent(p)' = Sent(p) /\ Heard(p)' = Heard(p) /\ Kept' = Kept /\ HeardMirror(p)
      BY <1>0, <2>1 DEF Sent, Heard, Kept, FlowInv
    <3>2. Delivering(p) => Delivering(p)'
      BY <2>4
    <3>3. KeepsStill(p)
      BY <2>1, <2>2, <3>1, <3>2 DEF KeepsStill, Still
    <3>4. HeardMirror(p)'
      BY <2>1, <3>1, <3>2 DEF HeardMirror
    <3> QED BY <3>3, <3>4
  <2> QED BY <2>5
<1>5. CASE Feedback
  <2> DEFINE q == CHOOSE r \in Params : engine.updates[r] # None
             v == engine.updates[q]
  <2>1. q \in Params /\ v # None
    BY <1>5 DEF Feedback
  <2>2. v \in Values /\ v = engine.mirror[q]
    BY <1>0, <2>1 DEF Engines, Maybe, Coherent
  <2>3. /\ descriptor' = [descriptor EXCEPT ![q].current = v]
        /\ engine' = [engine EXCEPT !.updates[q] = None]
        /\ \/ resync' = resync /\ to_control' = Append(to_control, [id |-> q, value |-> v])
           \/ resync' = TRUE
        /\ dsp' = dsp /\ dsp # "parked" /\ overrides' = overrides /\ shutdown' = shutdown /\ to_dsp' = to_dsp
    BY <1>5 DEF Feedback
  <2>4. engine.updates[q] # None /\ engine.mirror[q] = v
    BY <2>1, <2>2
  <2> HIDE DEF q, v
  <2>5. engine'.mirror = engine.mirror /\ \A p \in Params : engine'.updates[p] = IF p = q THEN None ELSE engine.updates[p]
    BY <1>0, <2>1, <2>3 DEF Engines
  <2>6. \A p \in Params : p # q => descriptor'[p].current = descriptor[p].current
    BY <1>0, <2>1, <2>3 DEF TypeOK, Descriptors
  <2>7. CASE resync'
    BY <2>7 DEF KeepsStill, Still, HeardMirror
  <2>8. CASE resync' = resync /\ to_control' = Append(to_control, [id |-> q, value |-> v])
    <3> TAKE p \in Params
    <3>1. Heard(p)' = IF p = q THEN v ELSE Heard(p)
      BY <1>0, <2>1, <2>2, <2>8, LastAppend DEF Heard
    <3>2. Sent(p)' = Sent(p) /\ Kept' = Kept /\ HeardMirror(p)
      BY <1>0, <2>3 DEF Sent, Kept, FlowInv
    <3>3. CASE p = q
      <4>1. Heard(p)' = v /\ v # None /\ engine'.mirror[p] = v
        BY <2>2, <2>4, <2>5, <3>1, <3>3, ValueFacts
      <4> QED BY <4>1 DEF KeepsStill, Still, HeardMirror
    <3>4. CASE p # q
      <4>1. Heard(p)' = Heard(p) /\ (Delivering(p)' <=> Delivering(p))
        BY <2>3, <2>5, <3>1, <3>4 DEF Delivering
      <4>2. KeepsStill(p)
        BY <2>3, <2>5, <2>6, <2>8, <3>2, <3>4, <4>1 DEF KeepsStill, Still
      <4>3. HeardMirror(p)'
        BY <2>5, <2>8, <3>2, <4>1 DEF HeardMirror
      <4> QED BY <4>2, <4>3
    <3> QED BY <3>3, <3>4
  <2> QED BY <2>3, <2>7, <2>8
<1> QED BY <1>1, <1>2, <1>3, <1>4, <1>5 DEF Worker

Showing(p) == control.at \in {"publish", "show"} /\ Reading(p)
FlowOf(p) == HeardMirror(p) /\ StillAgrees(p) /\ ShownOnTheWay(p)

(* What keeps the flow of one parameter. *)
LEMMA FlowKept ==
  ASSUME FlowInv, NEW p \in Params, KeepsStill(p), HeardMirror(p)', controller'[p] = controller[p],
         refused' = refused,
         Acknowledged(p)' => Acknowledged(p), Showing(p)' => Showing(p)
  PROVE  FlowOf(p)'
<1>1. StillAgrees(p) /\ ShownOnTheWay(p)
  BY DEF FlowInv
<1> QED BY <1>1 DEF FlowOf, StillAgrees, ShownOnTheWay, Showing, KeepsStill

(* Nothing but the control thread's place, or the slider's half, changes. *)
LEMMA FlowUntouched ==
  ASSUME FlowInv, NEW p \in Params, engine' = engine, to_dsp' = to_dsp, to_control' = to_control,
         resync' = resync, overrides' = overrides, dsp' = dsp, shutdown => shutdown',
         descriptor'[p].current = descriptor[p].current
  PROVE  KeepsStill(p) /\ HeardMirror(p)'
<1>1. Sent(p)' = Sent(p) /\ Heard(p)' = Heard(p) /\ (Delivering(p)' <=> Delivering(p)) /\ Kept' = Kept
  BY DEF Sent, Heard, Delivering, Kept
<1>2. HeardMirror(p)
  BY DEF FlowInv
<1> QED BY <1>1, <1>2 DEF KeepsStill, HeardMirror, Still

(* After a drain the controller holds what the ring left. *)
LEMMA DrainFlow ==
  ASSUME ParameterInv, DrainFeedback(Kept), engine' = engine, to_dsp' = to_dsp, resync' <=> resync,
         overrides' = overrides, dsp' = dsp, shutdown' = shutdown, NEW p \in Params
  PROVE  HeardMirror(p)' /\ StillAgrees(p)'
<1>1. TypeOK /\ HeardMirror(p) /\ StillAgrees(p)
  BY DEF ParameterInv, FlowInv
<1>2. /\ SlidersKept /\ to_control' = <<>>
      /\ p \notin Kept /\ Heard(p) # None =>
           (p \notin refused' => controller'[p] = Heard(p)) /\ descriptor'[p].current = Heard(p)
      /\ p \in Kept \/ Heard(p) = None =>
           /\ controller'[p] = controller[p] /\ (p \in refused' <=> p \in refused)
           /\ descriptor'[p].current = descriptor[p].current
  BY <1>1, DrainEffect
<1>3. Heard(p)' = None
  BY <1>2, LastEmpty DEF Heard
<1>4. Sent(p)' = Sent(p) /\ (Delivering(p)' <=> Delivering(p)) /\ Kept' = Kept /\ (Acknowledged(p)' <=> Acknowledged(p))
  BY <1>2 DEF Sent, Delivering, Kept, Acknowledged, SlidersKept
<1>5. Still(p)' => p \notin Kept /\ ~Delivering(p) /\ ~resync
  BY <1>4 DEF Still, Kept
<1>6. CASE Heard(p) = None
  <2>1. Still(p)' => Still(p)
    BY <1>4, <1>6 DEF Still
  <2> QED BY <1>1, <1>2, <1>3, <1>4, <1>6, <2>1 DEF HeardMirror, StillAgrees
<1>7. CASE Heard(p) # None
  <2>1. Still(p)' => Heard(p) = engine.mirror[p]
    BY <1>1, <1>5, <1>7 DEF HeardMirror
  <2> QED BY <1>2, <1>3, <1>5, <1>7, <2>1 DEF HeardMirror, StillAgrees
<1> QED BY <1>6, <1>7

(* After the mirror is copied everything holds it. *)
LEMMA SyncFlow ==
  ASSUME TypeOK, engine' \in Engines, NEW edits, SyncMirror(engine', edits), to_control' = <<>>, NEW p \in Params
  PROVE  HeardMirror(p)' /\ StillAgrees(p)'
<1>1. (p \notin refused' => controller'[p] = engine'.mirror[p]) /\ descriptor'[p].current = engine'.mirror[p]
  BY SyncEffect
<1>2. Heard(p)' = None
  BY LastEmpty DEF Heard
<1> QED BY <1>1, <1>2 DEF HeardMirror, StillAgrees

(* A value put on a ring, or kept, is on its way; a kept one that is not, for *)
(* want of room, gives the helper up. *)
LEMMA AppendSends ==
  ASSUME TypeOK, NEW q \in Params, NEW v \in Values, to_dsp' = Append(to_dsp, [id |-> q, value |-> v])
  PROVE  \A p \in Params : Sent(p)' = IF p = q THEN v ELSE Sent(p)
BY LastAppend DEF TypeOK, Sent

(* An edit of the vendor window. *)
LEMMA PerformFlow ==
  ASSUME ParameterInv, NEW q \in Params, PerformEdit(q), NEW p \in Params
  PROVE  FlowOf(p)'
<1>0. TypeOK /\ FlowInv /\ PauseInv /\ control \in Controls /\ writes \in 0 .. MaxWrites
  BY DEF ParameterInv, TypeOK
<1>1. writes + 1 \in Values /\ writes + 1 # None
  BY <1>0, ValueFacts DEF PerformEdit, Write, Values
<1>2. /\ engine' = engine /\ to_control' = to_control /\ resync' = resync /\ descriptor' = descriptor
      /\ dsp' = dsp /\ (shutdown => shutdown')
      /\ controller' = [controller EXCEPT ![q] = writes + 1] /\ refused' = refused \ {q}
      /\ control'.at = "publish" /\ control'.read = [NoValues EXCEPT ![q] = writes + 1]
  BY <1>0, ControlSteps DEF PerformEdit, Moves, Turns
<1>3. /\ \A r \in Params : r # q => controller'[r] = controller[r]
      /\ \A r \in Params : Reading(r)' => r = q
  BY <1>0, <1>2, ValueFacts DEF TypeOK, Reading, MaybeValues
<1>4. \/ /\ to_dsp' = Append(to_dsp, [id |-> q, value |-> writes + 1])
         /\ overrides' = overrides /\ shutdown' = shutdown
      \/ /\ to_dsp' = to_dsp
         /\ overrides' = [overrides EXCEPT ![q] = writes + 1] /\ shutdown' = shutdown
      \/ /\ to_dsp' = to_dsp /\ overrides' = overrides /\ shutdown' = TRUE
         /\ ~(Cardinality(Kept) < OverrideCapacity)
  BY DEF PerformEdit
<1>5. /\ Heard(p)' = Heard(p) /\ (Delivering(p)' <=> Delivering(p)) /\ HeardMirror(p)
      /\ (Acknowledged(p)' <=> Acknowledged(p))
  BY <1>0, <1>2 DEF Heard, Delivering, FlowInv, Acknowledged
<1>6. HeardMirror(p)'
  BY <1>2, <1>5 DEF HeardMirror
<1>7. Still(p)' => p # q /\ Still(p)
  <2>1. CASE /\ to_dsp' = Append(to_dsp, [id |-> q, value |-> writes + 1])
             /\ overrides' = overrides /\ shutdown' = shutdown
    <3>1. Sent(p)' = IF p = q THEN writes + 1 ELSE Sent(p)
      BY <1>0, <1>1, <2>1, AppendSends
    <3>2. Kept' = Kept
      BY <2>1 DEF Kept
    <3> QED BY <1>1, <1>2, <1>5, <2>1, <3>1, <3>2 DEF Still
  <2>2. CASE /\ to_dsp' = to_dsp
             /\ overrides' = [overrides EXCEPT ![q] = writes + 1] /\ shutdown' = shutdown
    <3>1. Sent(p)' = Sent(p)
      BY <2>2 DEF Sent
    <3>2. overrides'[p] = IF p = q THEN writes + 1 ELSE overrides[p]
      BY <1>0, <2>2 DEF TypeOK
    <3>3. q \in Kept'
      BY <1>0, <1>1, <2>2 DEF TypeOK, Kept
    <3> QED BY <1>1, <1>2, <1>5, <2>2, <3>1, <3>2, <3>3 DEF Still
  <2>3. CASE /\ to_dsp' = to_dsp /\ overrides' = overrides /\ shutdown' = TRUE
             /\ ~(Cardinality(Kept) < OverrideCapacity)
    <3>1. Kept' = Kept
      BY <2>3 DEF Kept
    <3>2. Kept # {}
      BY <2>3, FS_EmptySet
    <3> QED BY <2>3, <3>1, <3>2 DEF Still
  <2> QED BY <1>4, <2>1, <2>2, <2>3
<1>8. CASE p = q
  BY <1>6, <1>7, <1>8 DEF FlowOf, StillAgrees, ShownOnTheWay
<1>9. CASE p # q
  BY <1>0, <1>2, <1>3, <1>5, <1>6, <1>7, <1>9 DEF FlowOf, StillAgrees, ShownOnTheWay, FlowInv
<1> QED BY <1>8, <1>9

(* The sliders: a value that goes on the ring is on its way, and one that does *)
(* not is not acknowledged. *)
LEMMA ApplyFlow ==
  ASSUME ParameterInv, NEW q \in Params, HostApply(q) \/ HostApplyLater(q), NEW p \in Params
  PROVE  FlowOf(p)'
<1>0. TypeOK /\ FlowInv /\ PauseInv /\ control \in Controls /\ control.read \in MaybeValues
      /\ Counted(q) /\ Claimed(q) /\ OneReading
  BY GenerationParts, ControlFields DEF ParameterInv, TypeOK
<1>1. /\ engine' = engine /\ to_control' = to_control /\ resync' = resync /\ descriptor' = descriptor
      /\ dsp' = dsp /\ shutdown' = shutdown /\ overrides' = overrides
      /\ control.at = "apply" /\ Reading(q)
  BY DEF HostApply, HostApplyLater, At
<1>2. descriptor[q].value \in Values /\ descriptor[q].value # None
  BY <1>0, DescriptorFields, ValueFacts DEF TypeOK
<1>3. \A r \in Params : r # q => controller'[r] = controller[r] /\ (r \in refused' <=> r \in refused)
  BY <1>0 DEF TypeOK, HostApply, HostApplyLater
<1>4. ~Acknowledged(q)
  BY <1>0, <1>1, Numbers DEF Claimed, Acknowledged
<1>5. /\ Heard(p)' = Heard(p) /\ (Delivering(p)' <=> Delivering(p)) /\ HeardMirror(p) /\ StillAgrees(p)
      /\ Kept' = Kept /\ (Acknowledged(p)' <=> Acknowledged(p))
  BY <1>0, <1>1 DEF Heard, Delivering, FlowInv, Acknowledged, Kept
<1>6. HeardMirror(p)'
  BY <1>1, <1>5 DEF HeardMirror
<1>7. CASE HostApply(q)
  <2>1. to_dsp' = Append(to_dsp, [id |-> q, value |-> descriptor[q].value])
    BY <1>7 DEF HostApply
  <2>2. Sent(p)' = IF p = q THEN descriptor[q].value ELSE Sent(p)
    BY <1>0, <1>2, <2>1, AppendSends
  <2>3. Still(p)' => p # q /\ Still(p)
    BY <1>1, <1>2, <1>5, <2>2 DEF Still
  <2>4. control'.read = [control.read EXCEPT ![q] = descriptor[q].value]
    BY <1>0, <1>7, ControlSteps DEF Moves, Turns
  <2>5. Reading(p)' => p = q
    BY <1>0, <1>1, <2>4 DEF Reading, MaybeValues, OneReading
  <2> QED BY <1>1, <1>3, <1>5, <1>6, <2>3, <2>5 DEF FlowOf, StillAgrees, ShownOnTheWay
<1>8. CASE HostApplyLater(q)
  <2>1. to_dsp' = to_dsp
    BY <1>8 DEF HostApplyLater
  <2>2. Still(p)' <=> Still(p)
    BY <1>1, <1>5, <2>1 DEF Still, Sent
  <2>3. control'.at = "host"
    BY <1>0, <1>8, ControlSteps DEF Hosts, Turns
  <2>4. CASE p = q
    BY <1>1, <1>4, <1>5, <1>6, <2>2, <2>3, <2>4 DEF FlowOf, StillAgrees, ShownOnTheWay
  <2>5. CASE p # q
    BY <1>1, <1>3, <1>5, <1>6, <2>2, <2>3, <2>5 DEF FlowOf, StillAgrees, ShownOnTheWay
  <2> QED BY <2>4, <2>5
<1> QED BY <1>7, <1>8

(* A value is shown, or acknowledged, while it is on its way or has arrived. *)
LEMMA ShowFlow ==
  ASSUME ParameterInv, PublishEdit \/ (\E q \in Params : HostShow(q)) \/ CatchUpAcknowledge,
         NEW p \in Params
  PROVE  FlowOf(p)'
<1>0. TypeOK /\ FlowInv /\ PauseInv /\ control \in Controls /\ CaptureInv
  BY DEF ParameterInv, TypeOK
<1>1. /\ engine' = engine /\ to_control' = to_control /\ resync' = resync /\ to_dsp' = to_dsp
      /\ dsp' = dsp /\ shutdown' = shutdown /\ overrides' = overrides
      /\ controller' = controller /\ refused' = refused
  BY DEF PublishEdit, HostShow, CatchUpAcknowledge
<1>2. /\ HeardMirror(p)' /\ (Still(p)' <=> Still(p)) /\ HeardMirror(p) /\ StillAgrees(p) /\ ShownOnTheWay(p)
  <2>1. Sent(p)' = Sent(p) /\ Heard(p)' = Heard(p) /\ (Delivering(p)' <=> Delivering(p)) /\ Kept' = Kept
    BY <1>1 DEF Sent, Heard, Delivering, Kept
  <2>2. HeardMirror(p) /\ StillAgrees(p) /\ ShownOnTheWay(p)
    BY <1>0 DEF FlowInv
  <2> QED BY <1>1, <2>1, <2>2 DEF HeardMirror, Still
<1>3. CASE PublishEdit
  <2> DEFINE shown == [r \in Params |-> IF control.read[r] # None THEN control.read[r] ELSE descriptor[r].current]
  <2>1. descriptor' = [r \in Params |-> [descriptor[r] EXCEPT !.current = shown[r]]] /\ At("publish")
    BY <1>3 DEF PublishEdit, Shown
  <2>2. SlidersKept /\ descriptor'[p].current = shown[p]
    <3> HIDE DEF shown
    <3> QED BY <1>0, <2>1, ShowingKeepsSliders
  <2>3. control'.at = "pump"
    BY <1>0, <1>3, ControlSteps DEF Moves, Turns
  <2>4. Still(p) => ~Reading(p)
    BY <1>2, <2>1 DEF ShownOnTheWay, At
  <2>5. Still(p) => descriptor'[p].current = descriptor[p].current
    BY <2>2, <2>4 DEF Reading
  <2> QED BY <1>1, <1>2, <2>2, <2>3, <2>5 DEF FlowOf, StillAgrees, ShownOnTheWay, Acknowledged, SlidersKept
<1>4. ASSUME NEW q \in Params, HostShow(q) PROVE FlowOf(p)'
  <2>1. control'.at = "host" /\ control.at = "show" /\ Reading(q)
    BY <1>0, <1>4, ControlSteps DEF HostShow, Hosts, Turns, At
  <2>2. CASE p = q
    <3>1. ~Still(p)
      BY <1>2, <2>1, <2>2 DEF ShownOnTheWay
    <3> QED BY <1>2, <2>1, <3>1 DEF FlowOf, StillAgrees, ShownOnTheWay
  <2>3. CASE p # q
    <3>1. descriptor'[p] = descriptor[p]
      BY <1>0, <1>4, <2>3 DEF HostShow, TypeOK
    <3> QED BY <1>1, <1>2, <2>1, <3>1 DEF FlowOf, StillAgrees, ShownOnTheWay, Acknowledged
  <2> QED BY <2>2, <2>3
<1>5. CASE CatchUpAcknowledge
  <2>1. descriptor'[p].current = descriptor[p].current
    BY <1>0, <1>5 DEF CatchUpAcknowledge, TypeOK, Descriptors
  <2>2. p \notin refused => controller[p] = engine.mirror[p]
    BY <1>0, <1>5 DEF CatchUpAcknowledge, CaptureInv
  <2>3. control'.at \in {"capture", "catch_up", "resuming"}
    BY <1>0, <1>5, ControlSteps DEF Moves, Turns
  <2> QED BY <1>1, <1>2, <2>1, <2>2, <2>3 DEF FlowOf, StillAgrees, ShownOnTheWay
<1> QED BY <1>3, <1>4, <1>5

(* What a sync or a drain leaves is not about to be shown. *)
LEMMA MeetingFlow ==
  ASSUME ParameterInv, TypeOK', NEW p \in Params,
         TopDrain \/ TailDrain \/ ReconcileFeedback \/ ReconcileNative \/ (CatchUp /\ Behind # {})
  PROVE  FlowOf(p)'
<1>0. TypeOK /\ PauseInv /\ control \in Controls /\ engine' \in Engines
  BY DEF ParameterInv, TypeOK
<1>1. CASE TopDrain
  <2>1. HeardMirror(p)' /\ StillAgrees(p)'
    BY <1>1, DrainFlow DEF TopDrain
  <2>2. control'.at \in {"pausing", "pump"}
    BY <1>0, <1>1, ControlSteps DEF AsksFor, Moves, Turns
  <2> QED BY <2>1, <2>2 DEF FlowOf, ShownOnTheWay
<1>2. CASE TailDrain
  <2>1. HeardMirror(p)' /\ StillAgrees(p)'
    BY <1>2, DrainFlow DEF TailDrain
  <2>2. control'.at = "top"
    BY <1>0, <1>2, ControlSteps DEF Turns
  <2> QED BY <2>1, <2>2 DEF FlowOf, ShownOnTheWay
<1>3. CASE ReconcileFeedback
  <2>1. control'.at \in {"resuming", "catch_up"}
    BY <1>0, <1>3, ControlSteps DEF Moves, Turns
  <2>2. CASE resync
    <3>1. SyncMirror(engine, NoValues) /\ engine' = engine /\ to_control' = <<>>
      BY <1>3, <2>2 DEF ReconcileFeedback
    <3>2. SyncMirror(engine', NoValues) /\ engine' \in Engines
      BY <1>0, <3>1 DEF TypeOK
    <3>3. HeardMirror(p)' /\ StillAgrees(p)'
      BY <1>0, <3>1, <3>2, SyncFlow
    <3> QED BY <2>1, <3>3 DEF FlowOf, ShownOnTheWay
  <2>3. CASE ~resync
    <3>1. DrainFeedback({}) /\ Kept = {} /\ resync' = FALSE
      BY <1>3, <2>3 DEF ReconcileFeedback
    <3>2. DrainFeedback(Kept)
      BY <3>1
    <3>3. resync' <=> resync
      BY <2>3, <3>1
    <3>4. HeardMirror(p)' /\ StillAgrees(p)'
      BY <1>3, <3>2, <3>3, DrainFlow DEF ReconcileFeedback
    <3> QED BY <2>1, <3>4 DEF FlowOf, ShownOnTheWay
  <2> QED BY <2>2, <2>3
<1>4. CASE ReconcileNative
  <2>1. HeardMirror(p)' /\ StillAgrees(p)'
    BY <1>0, <1>4, SyncFlow DEF ReconcileNative
  <2>2. control'.at \in {"resuming", "catch_up"}
    BY <1>0, <1>4, ControlSteps DEF Moves, Turns
  <2> QED BY <2>1, <2>2 DEF FlowOf, ShownOnTheWay
<1>5. CASE CatchUp /\ Behind # {}
  <2>1. SyncMirror(engine', ValuesOfBehind) /\ to_control' = <<>>
    BY <1>0, <1>5 DEF CatchUp, Behind, ValuesOfBehind, PauseInv, Frontier, At
  <2>2. HeardMirror(p)' /\ StillAgrees(p)'
    BY <1>0, <2>1, SyncFlow
  <2>3. control'.at = "acknowledge"
    BY <1>0, <1>5, ControlSteps DEF Turns
  <2> QED BY <2>2, <2>3 DEF FlowOf, ShownOnTheWay
<1> QED BY <1>1, <1>2, <1>3, <1>4, <1>5

(* Every step keeps FlowInv: what is still agrees everywhere. *)
LEMMA FlowStep ==
  ASSUME ParameterInv, [Next]_vars
  PROVE  FlowInv'
<1>0. TypeOK /\ FlowInv /\ PauseInv /\ control \in Controls
  BY DEF ParameterInv, TypeOK
<1>1. SUFFICES ASSUME NEW p \in Params PROVE FlowOf(p)'
  BY DEF FlowInv, FlowOf
<1>2. CASE Worker
  <2>1. KeepsStill(p) /\ HeardMirror(p)'
    BY <1>2, WorkerFlow
  <2>2. SlidersKept /\ control' = control /\ controller' = controller /\ refused' = refused
    BY <1>2, WorkerFrame
  <2> QED BY <1>0, <2>1, <2>2, FlowKept DEF SlidersKept, Acknowledged, Showing, Reading
<1>3. CASE \/ \E q \in Params : StoreValue(q)
           \/ AdvanceGeneration
           \/ UNCHANGED vars
  <2>1. /\ engine' = engine /\ to_dsp' = to_dsp /\ to_control' = to_control /\ resync' = resync
        /\ overrides' = overrides /\ dsp' = dsp /\ shutdown' = shutdown /\ control' = control
        /\ controller' = controller /\ refused' = refused
    BY <1>3 DEF StoreValue, AdvanceGeneration, vars
  <2>2. descriptor'[p].current = descriptor[p].current /\ (Acknowledged(p)' => Acknowledged(p))
    <3>1. CASE \E q \in Params : StoreValue(q)
      BY <1>0, <3>1 DEF StoreValue, TypeOK, Descriptors, Acknowledged
    <3>2. CASE UNCHANGED vars
      BY <3>2 DEF vars, Acknowledged
    <3>3. CASE AdvanceGeneration
      <4>1. /\ descriptor'[p].current = descriptor[p].current
            /\ descriptor'[p].applied = descriptor[p].applied
            /\ descriptor'[p].pending = IF p = obs THEN descriptor[p].pending + 1 ELSE descriptor[p].pending
        BY <1>0, <3>3 DEF AdvanceGeneration, TypeOK, Descriptors
      <4>2. Counted(p)
        BY GenerationParts DEF ParameterInv
      <4> QED BY <1>0, <4>1, <4>2, Numbers DEF Counted, Acknowledged
    <3> QED BY <1>3, <3>1, <3>2, <3>3
  <2>3. KeepsStill(p) /\ HeardMirror(p)'
    BY <1>0, <2>1, <2>2, FlowUntouched
  <2> QED BY <1>0, <2>1, <2>2, <2>3, FlowKept DEF Showing, Reading
<1>4. CASE \/ PumpDone \/ PauseGranted \/ PauseTimesOut \/ ResumeEnds \/ FrontierFails \/ NoStateRequest
           \/ StateRequest \/ Capture \/ (CatchUp /\ Behind = {})
           \/ \E q \in Params : HostRead(q)
  <2>1. /\ engine' = engine /\ to_dsp' = to_dsp /\ to_control' = to_control /\ resync' = resync
        /\ overrides' = overrides /\ dsp' = dsp /\ descriptor' = descriptor
        /\ controller' = controller /\ refused' = refused
    BY <1>4 DEF PumpDone, PauseGranted, PauseTimesOut, ResumeEnds, FrontierFails, NoStateRequest,
       StateRequest, Capture, CatchUp, Behind, HostRead
  <2>2. control'.at \notin {"publish", "show"}
    BY <1>0, <1>4, ControlSteps DEF AsksFor, Moves, Hosts, Returns, Turns
  <2>3. shutdown => shutdown'
    BY <1>4, ControlFrame DEF Control
  <2>4. KeepsStill(p) /\ HeardMirror(p)'
    BY <1>0, <2>1, <2>3, FlowUntouched
  <2> QED BY <1>0, <2>1, <2>2, <2>4, FlowKept DEF Showing, Acknowledged
<1>5. CASE TopDrain \/ TailDrain \/ ReconcileFeedback \/ ReconcileNative \/ (CatchUp /\ Behind # {})
  BY <1>5, MeetingFlow, TypeStep
<1>6. CASE PublishEdit \/ (\E q \in Params : HostShow(q)) \/ CatchUpAcknowledge
  BY <1>6, ShowFlow
<1>7. CASE \E q \in Params : PerformEdit(q)
  BY <1>7, PerformFlow
<1>8. CASE \E q \in Params : HostApply(q) \/ HostApplyLater(q)
  BY <1>8, ApplyFlow
<1> QED BY <1>2, <1>3, <1>4, <1>5, <1>6, <1>7, <1>8 DEF Next, Control

(* What a capture reads agrees: whatever was on its way has arrived. *)
LEMMA CaptureStep ==
  ASSUME ParameterInv, [Next]_vars
  PROVE  CaptureInv'
<1>0. TypeOK /\ FlowInv /\ PauseInv /\ CaptureInv /\ control \in Controls
  BY DEF ParameterInv, TypeOK
<1>1. CASE Worker
  <2>1. control' = control
    BY <1>1, WorkerFrame
  <2>2. control.at \notin Granted
    BY <1>0, <1>1, ParkedWaits
  <2> QED BY <2>1, <2>2 DEF CaptureInv, Granted, Frontier, At
<1>2. CASE (\E q \in Params : StoreValue(q)) \/ AdvanceGeneration \/ UNCHANGED vars
  BY <1>0, <1>2 DEF StoreValue, AdvanceGeneration, vars, CaptureInv, At
<1>3. CASE CatchUp /\ Behind # {}
  <2>1. SyncMirror(engine', ValuesOfBehind) /\ engine' \in Engines
    BY <1>3, TypeStep DEF CatchUp, Behind, ValuesOfBehind, TypeOK
  <2>2. \A p \in Params : p \notin refused' => controller'[p] = engine'.mirror[p]
    BY <1>0, <2>1, SyncEffect
  <2> QED BY <2>2 DEF CaptureInv
<1>4. CASE CatchUp /\ Behind = {}
  <2>1. controller' = controller /\ refused' = refused /\ engine' = engine /\ to_dsp' = to_dsp
    BY <1>4 DEF CatchUp, Behind
  <2>2. dsp = "parked" /\ to_control = <<>> /\ ~resync /\ Kept = {}
    BY <1>0, <1>4 DEF CatchUp, PauseInv, Granted, Frontier, At
  <2>3. ASSUME to_dsp = <<>>, NEW p \in Params \ refused PROVE controller[p] = engine.mirror[p]
    <3>1. Sent(p) = None /\ Heard(p) = None
      BY <2>2, <2>3, LastEmpty DEF Sent, Heard
    <3>2. Still(p)
      BY <2>2, <3>1 DEF Still, Delivering, Kept
    <3>3. Acknowledged(p)
      BY <1>4 DEF Behind, Acknowledged
    <3> QED BY <1>0, <3>2, <3>3 DEF FlowInv, StillAgrees
  <2>4. control'.at = "capture"
    BY <1>0, <1>4, ControlSteps DEF Moves, Turns
  <2> QED BY <2>1, <2>3, <2>4 DEF CaptureInv, At
<1>5. CASE CatchUpAcknowledge
  <2>1. controller' = controller /\ refused' = refused /\ engine' = engine /\ At("acknowledge")
    BY <1>5 DEF CatchUpAcknowledge
  <2> QED BY <1>0, <2>1 DEF CaptureInv
<1>6. CASE \/ TopDrain \/ TailDrain \/ PublishEdit \/ ReconcileFeedback \/ ReconcileNative \/ PumpDone
           \/ PauseGranted \/ PauseTimesOut \/ ResumeEnds \/ FrontierFails \/ NoStateRequest
           \/ StateRequest \/ Capture
           \/ \E p \in Params : PerformEdit(p) \/ HostRead(p) \/ HostApply(p) \/ HostApplyLater(p) \/ HostShow(p)
  <2>1. control'.at \notin {"acknowledge", "capture"}
    BY <1>0, <1>6, ControlSteps DEF AsksFor, Moves, Hosts, Returns, Turns
  <2> QED BY <2>1 DEF CaptureInv, At
<1> QED BY <1>1, <1>2, <1>3, <1>4, <1>5, <1>6 DEF Next, Control

-----------------------------------------------------------------------------
(***************************************************************************)
(* While no pause times out                                                 *)
(***************************************************************************)
LEMMA StillTrusted ==
  ASSUME ParameterInv, [Next]_vars, ~late', ~shutdown'
  PROVE  ~late /\ ~shutdown
<1>1. CASE Worker
  BY <1>1, WorkerFrame
<1>2. CASE Control
  BY <1>2, ControlFrame
<1>3. CASE (\E q \in Params : StoreValue(q)) \/ AdvanceGeneration \/ UNCHANGED vars
  BY <1>3 DEF StoreValue, AdvanceGeneration, vars
<1> QED BY <1>1, <1>2, <1>3 DEF Next

(* Every step keeps HandshakeInv. *)
LEMMA HandshakeStep ==
  ASSUME ParameterInv, [Next]_vars
  PROVE  HandshakeInv'
<1>0. TypeOK /\ PauseInv /\ HandshakeInv /\ control \in Controls
  BY DEF ParameterInv, TypeOK
<1>1. SUFFICES ASSUME ~late', ~shutdown' PROVE HandshakeInv'
  BY DEF HandshakeInv
<1>2. ~late /\ ~shutdown
  BY <1>1, StillTrusted
<1>3. /\ Kept # {} => \/ control.at \in {"pump", "publish"}
                      \/ control.at \in {"pausing", "paused"} /\ control.why = "native"
      /\ dsp \in {"settled", "confirm"} => At("pausing")
      /\ dsp = "parked" => control.at \in Pausing \cup {"resuming"}
      /\ dsp \in Settled => to_dsp = <<>>
  BY <1>0, <1>2 DEF HandshakeInv
<1>4. control.at \notin Pausing \cup {"resuming"} => dsp \notin Settled
  BY <1>3 DEF Pausing, Settled, At
<1>5. CASE Worker
  <2>1. control' = control /\ Kept' = Kept
    BY <1>5, WorkerFrame DEF Kept
  <2>2. CASE Settle
    <3>1. dsp' = "settled" /\ to_dsp' = <<>> /\ wants_pause /\ dsp = "wait"
      BY <2>2 DEF Settle
    <3>2. At("pausing")
      BY <1>0, <3>1 DEF PauseInv, Pausing, At
    <3> QED BY <1>3, <2>1, <3>1, <3>2 DEF HandshakeInv, At
  <2>3. CASE Park
    <3>1. to_dsp' = to_dsp /\ dsp = "confirm" /\ dsp' = IF wants_pause THEN "parked" ELSE "wait"
      BY <2>3 DEF Park
    <3>2. dsp' = "parked" => control.at \in Pausing
      BY <1>0, <3>1 DEF PauseInv
    <3>3. to_dsp' = <<>>
      BY <1>3, <3>1 DEF Settled
    <3> QED BY <1>3, <2>1, <3>1, <3>2, <3>3 DEF HandshakeInv, At
  <2>4. CASE FeedbackDone
    <3>1. to_dsp' = to_dsp /\ (dsp' \in {"drain", "wait"} \/ (dsp = "settled" /\ dsp' = "confirm"))
      BY <2>4 DEF FeedbackDone
    <3> QED BY <1>3, <2>1, <3>1 DEF HandshakeInv, Settled, At
  <2>5. CASE Feedback
    <3>1. to_dsp' = to_dsp /\ dsp' = dsp
      BY <2>5 DEF Feedback
    <3> QED BY <1>3, <2>1, <3>1 DEF HandshakeInv, At
  <2>6. CASE DspBlock \/ DspWake \/ DspDrain \/ Unpark
    <3>1. dsp' \notin Settled
      BY <2>6 DEF DspBlock, DspWake, DspDrain, Unpark, Settled
    <3> QED BY <1>3, <2>1, <3>1 DEF HandshakeInv, Settled, At
  <2>7. CASE DspFails
    BY <1>1, <2>7 DEF DspFails
  <2> QED BY <1>5, <2>2, <2>3, <2>4, <2>5, <2>6, <2>7 DEF Worker
<1>6. CASE (\E q \in Params : StoreValue(q)) \/ AdvanceGeneration \/ UNCHANGED vars
  BY <1>3, <1>6 DEF StoreValue, AdvanceGeneration, vars, HandshakeInv, At, Kept
<1>7. ASSUME dsp' = dsp, dsp \notin Settled,
             Kept' # {} => \/ control'.at \in {"pump", "publish"}
                           \/ control'.at = "pausing" /\ control'.why = "native"
      PROVE  HandshakeInv'
  BY <1>7 DEF HandshakeInv, Settled, At
<1>8. CASE \/ TopDrain \/ TailDrain \/ NoStateRequest \/ StateRequest
           \/ \E p \in Params : HostRead(p) \/ HostApply(p) \/ HostApplyLater(p) \/ HostShow(p)
  <2>1. dsp' = dsp /\ overrides' = overrides /\ control.at \in {"top", "tail", "host", "apply", "show"}
    BY <1>8 DEF TopDrain, TailDrain, NoStateRequest, StateRequest, HostRead, HostApply, HostApplyLater, HostShow, At
  <2>2. Kept = {} /\ Kept' = Kept /\ dsp \notin Settled
    BY <1>3, <1>4, <2>1 DEF Kept, Pausing, Granted, Frontier
  <2> QED BY <1>7, <2>1, <2>2
<1>9. CASE PublishEdit \/ \E p \in Params : PerformEdit(p)
  <2>1. dsp' = dsp /\ control.at \in {"pump", "publish"}
    BY <1>9 DEF PublishEdit, PerformEdit, At
  <2>2. control'.at \in {"pump", "publish"}
    BY <1>0, <1>9, ControlSteps DEF Moves, Turns
  <2>3. dsp \notin Settled
    BY <1>4, <2>1 DEF Pausing, Granted, Frontier
  <2> QED BY <1>7, <2>1, <2>2, <2>3
<1>10. CASE PumpDone
  <2>1. dsp' = dsp /\ overrides' = overrides /\ control.at = "pump"
    BY <1>10 DEF PumpDone, At
  <2>2. dsp \notin Settled /\ Kept' = Kept
    BY <1>4, <2>1 DEF Pausing, Granted, Frontier, Kept
  <2>3. Kept # {} => control'.at = "pausing" /\ control'.why = "native"
    BY <1>0, <1>10, ControlSteps DEF AsksFor, Turns
  <2> QED BY <1>7, <2>1, <2>2, <2>3
<1>11. CASE PauseGranted
  <2>1. dsp' = dsp /\ overrides' = overrides /\ to_dsp' = to_dsp /\ control.at = "pausing" /\ dsp = "parked"
    BY <1>11 DEF PauseGranted, At
  <2>2. control'.at = "paused" /\ control'.why = control.why
    BY <1>0, <1>11, ControlSteps DEF Moves, Turns
  <2>3. Kept' = Kept
    BY <2>1 DEF Kept
  <2> QED BY <1>3, <2>1, <2>2, <2>3 DEF HandshakeInv, Pausing, Granted, At
<1>12. CASE PauseTimesOut \/ FrontierFails
  BY <1>1, <1>12 DEF PauseTimesOut, FrontierFails
<1>13. CASE ResumeEnds
  <2>1. dsp' = dsp /\ overrides' = overrides /\ control.at = "resuming" /\ dsp # "parked"
    BY <1>1, <1>13 DEF ResumeEnds, At
  <2>2. Kept' = {} /\ dsp \notin Settled
    BY <1>3, <2>1 DEF Kept, Settled, At
  <2> QED BY <1>7, <2>1, <2>2
<1>14. CASE ReconcileFeedback \/ ReconcileNative \/ CatchUp \/ CatchUpAcknowledge \/ Capture
  <2>1. dsp' = dsp /\ to_dsp' = to_dsp /\ control.at \in Granted
    BY <1>14 DEF ReconcileFeedback, ReconcileNative, CatchUp, CatchUpAcknowledge, Capture, At, Granted,
       Frontier
  <2>2. dsp = "parked" /\ to_dsp' = <<>>
    BY <1>0, <1>3, <2>1 DEF PauseInv, Settled
  <2>3. control'.at \in Frontier \cup {"resuming"}
    BY <1>0, <1>14, ControlSteps DEF Moves, Turns, Frontier
  <2>4. Kept' = {}
    <3>1. CASE ReconcileNative
      BY <3>1, NothingKept DEF ReconcileNative
    <3>2. CASE ReconcileFeedback
      BY <3>2 DEF ReconcileFeedback, Kept
    <3>3. CASE CatchUp \/ CatchUpAcknowledge \/ Capture
      BY <1>0, <3>3 DEF CatchUp, CatchUpAcknowledge, Capture, PauseInv, Frontier, At, Kept
    <3> QED BY <1>14, <3>1, <3>2, <3>3
  <2> QED BY <2>1, <2>2, <2>3, <2>4 DEF HandshakeInv, Pausing, Granted
<1> QED BY <1>5, <1>6, <1>8, <1>9, <1>10, <1>11, <1>12, <1>13, <1>14 DEF Next, Control

(* A call leaves every parameter as new as it was, or newer than the slider. *)
LEMMA HandedNewest ==
  ASSUME NEW e, NEW sent, NEW n, Handed(e, sent, n), e = engine, overrides' = overrides,
         \/ to_dsp' = to_dsp /\ \A q \in Params : sent[q] = None
         \/ to_dsp' = <<>> /\ \A q \in Params : sent[q] = Sent(q)
  PROVE  \A p \in Params : Newest(p)' = Newest(p) \/ Newest(p)' = n
<1> SUFFICES ASSUME NEW p \in Params PROVE Newest(p)' = Newest(p) \/ Newest(p)' = n
  OBVIOUS
<1>1. \/ sent[p] = None /\ engine'.mirror[p] = engine.mirror[p]
      \/ engine'.mirror[p] = sent[p] /\ sent[p] # None
      \/ engine'.mirror[p] = n
  BY DEF Handed
<1>2. CASE to_dsp' = to_dsp /\ \A q \in Params : sent[q] = None
  <2>1. Sent(p)' = Sent(p)
    BY <1>2 DEF Sent
  <2> QED BY <1>1, <1>2, <2>1 DEF Newest
<1>3. CASE to_dsp' = <<>> /\ \A q \in Params : sent[q] = Sent(q)
  <2>1. Sent(p)' = None /\ sent[p] = Sent(p)
    BY <1>3, LastEmpty DEF Sent
  <2> QED BY <1>1, <2>1 DEF Newest
<1> QED BY <1>2, <1>3

(* The worker leaves every parameter what it ends with, or gives it the *)
(* newest write. *)
LEMMA WorkerNewest ==
  ASSUME ParameterInv, Worker
  PROVE  \A p \in Params : Newest(p)' = Newest(p) \/ Newest(p)' = writes'
<1>0. TypeOK /\ EngineInv /\ writes \in 0 .. MaxWrites /\ engine \in Engines
      /\ Coherent(engine) /\ to_dsp \in Seq(Updates)
  BY DEF ParameterInv, TypeOK, EngineInv
<1>1. CASE DspBlock
  <2>1. PICK own \in OwnChanges : OwnWrite(own) /\ engine' = Processed(engine, own)
    BY <1>1 DEF DspBlock
  <2>2. Handed(engine, NoValues, writes')
    BY <1>0, <2>1, BlockHands
  <2> QED BY <1>1, <2>2, HandedNewest, ValueFacts DEF DspBlock
<1>2. CASE DspDrain
  <2> DEFINE sent == LastOf(to_dsp, {})
  <2>1. sent \in MaybeValues /\ \A q \in Params : sent[q] = Sent(q)
    BY <1>0, LastType DEF Sent
  <2>2. Flushed(Queued(engine, sent)) \/ engine' = Queued(engine, sent)
    BY <1>2 DEF DspDrain
  <2> HIDE DEF sent
  <2>3. Handed(engine, sent, writes')
    BY <1>0, <2>1, <2>2, FlushHands, QueueHands
  <2> QED BY <1>2, <2>1, <2>3, HandedNewest DEF DspDrain
<1>3. CASE Settle
  <2> DEFINE sent == LastOf(to_dsp, {})
  <2>1. sent \in MaybeValues /\ \A q \in Params : sent[q] = Sent(q)
    BY <1>0, LastType DEF Sent
  <2>2. Flushed(Queued(engine, sent))
    BY <1>3 DEF Settle
  <2> HIDE DEF sent
  <2>3. Handed(engine, sent, writes')
    BY <1>0, <2>1, <2>2, FlushHands
  <2> QED BY <1>3, <2>1, <2>3, HandedNewest DEF Settle
<1>4. CASE DspWake \/ FeedbackDone \/ Park \/ Unpark \/ DspFails
  BY <1>4 DEF DspWake, FeedbackDone, Park, Unpark, DspFails, Newest, Sent
<1>5. CASE Feedback
  <2>1. engine'.mirror = engine.mirror
    BY <1>0, <1>5 DEF Feedback, Engines
  <2> QED BY <1>5, <2>1 DEF Feedback, Newest, Sent
<1> QED BY <1>1, <1>2, <1>3, <1>4, <1>5 DEF Worker

\* The slider's value of p is not newer than what the processor ends with.
NewestOf(p) == obs # p /\ Answered(p) => descriptor[p].value <= Newest(p)

(* A step that acknowledges nothing, and sends and takes nothing. *)
LEMMA NewestKept ==
  ASSUME NEW p \in Params, NewestOf(p), obs' = obs, descriptor'[p].value = descriptor[p].value,
         engine' = engine, overrides' = overrides, Sent(p)' = Sent(p), Answered(p)' => Answered(p)
  PROVE  NewestOf(p)'
<1>1. Newest(p)' = Newest(p)
  BY DEF Newest
<1> QED BY <1>1 DEF NewestOf

(* Where nothing is being acknowledged, no slider becomes answered. *)
LEMMA NotAnswering ==
  ASSUME NEW p \in Params, SlidersKept, control'.at \notin {"show", "acknowledge"}
  PROVE  Answered(p)' => Answered(p)
BY DEF Answered, Acknowledged, SlidersKept, At

(* Every step keeps NewestInv: what is acknowledged is at least as new as the *)
(* slider. *)
LEMMA NewestStep ==
  ASSUME ParameterInv, [Next]_vars
  PROVE  NewestInv'
<1>0. /\ TypeOK /\ PauseInv /\ HandshakeInv /\ control \in Controls /\ writes \in 0 .. MaxWrites
      /\ engine \in Engines /\ Coherent(engine) /\ to_dsp \in Seq(Updates) /\ overrides \in MaybeValues
      /\ control.read \in MaybeValues
  BY ControlFields DEF ParameterInv, TypeOK, EngineInv, MaybeValues
<1>1. SUFFICES ASSUME ~late', ~shutdown', NEW p \in Params PROVE NewestOf(p)'
  BY DEF NewestInv, NewestOf
<1>2. ~late /\ ~shutdown
  BY <1>1, StillTrusted
<1>3. NewestOf(p) /\ (control.at \notin {"pump", "publish", "pausing", "paused"} => Kept = {})
      /\ (dsp \in Settled => to_dsp = <<>>)
  BY <1>2 DEF ParameterInv, NewestInv, NewestOf, HandshakeInv
<1>4. Counted(p) /\ Claimed(p) /\ OneReading
  BY GenerationParts DEF ParameterInv
<1>5. CASE Worker
  <2>1. Newest(p)' = Newest(p) \/ Newest(p)' = writes'
    BY <1>5, WorkerNewest
  <2>2. SlidersKept /\ control' = control /\ obs' = obs /\ writes \in Nat /\ writes' \in Nat /\ writes <= writes'
    BY <1>5, WorkerFrame
  <2>3. Answered(p)' => Answered(p)
    BY <2>2 DEF Answered, Acknowledged, SlidersKept, Reading, At
  <2>4. descriptor'[p].value = descriptor[p].value /\ descriptor[p].value \in Nat /\ descriptor[p].value <= writes
    BY <1>0, <1>4, <2>2, Numbers DEF SlidersKept, Counted
  <2> QED BY <1>3, <2>1, <2>2, <2>3, <2>4 DEF NewestOf
<1>6. ASSUME NEW q \in Params, StoreValue(q) PROVE NewestOf(p)'
  <2>1. obs' = q /\ obs = None /\ control' = control /\ engine' = engine /\ overrides' = overrides /\ to_dsp' = to_dsp
    BY <1>6 DEF StoreValue
  <2>2. CASE p = q
    BY <2>1, <2>2 DEF NewestOf
  <2>3. CASE p # q
    <3>1. descriptor'[p] = descriptor[p]
      BY <1>0, <1>6, <2>3 DEF StoreValue, TypeOK
    <3>2. (Answered(p)' <=> Answered(p)) /\ Newest(p)' = Newest(p)
      BY <2>1, <3>1 DEF Answered, Acknowledged, Newest, Sent, Reading, At
    <3> QED BY <1>3, <2>1, <3>1, <3>2, ValueFacts DEF NewestOf
  <2> QED BY <2>2, <2>3
<1>7. CASE AdvanceGeneration
  <2>1. /\ obs \in Params /\ obs' = None /\ control' = control /\ engine' = engine /\ overrides' = overrides
        /\ to_dsp' = to_dsp
    BY <1>0, <1>7 DEF AdvanceGeneration, TypeOK
  <2>2. Newest(p)' = Newest(p)
    BY <2>1 DEF Newest, Sent
  <2>3. CASE p = obs
    <3>1. descriptor'[p].pending = descriptor[p].pending + 1 /\ descriptor'[p].applied = descriptor[p].applied
      BY <1>0, <1>7, <2>1, <2>3 DEF AdvanceGeneration, TypeOK, Descriptors
    <3>2. ~Answered(p)'
      BY <1>0, <1>4, <2>1, <3>1, Numbers DEF Answered, Acknowledged, Counted, Claimed, Reading, At
    <3> QED BY <3>2 DEF NewestOf
  <2>4. CASE p # obs
    <3>1. descriptor'[p] = descriptor[p]
      BY <1>0, <1>7, <2>1, <2>4 DEF AdvanceGeneration, TypeOK
    <3>2. Answered(p)' <=> Answered(p)
      BY <2>1, <3>1 DEF Answered, Acknowledged, Reading, At
    <3> QED BY <1>3, <2>2, <2>4, <3>1, <3>2 DEF NewestOf
  <2> QED BY <2>3, <2>4
<1>8. CASE UNCHANGED vars
  BY <1>3, <1>8 DEF vars, NewestOf, Answered, Acknowledged, Newest, Sent, Reading, At
<1>9. CASE PauseTimesOut \/ FrontierFails
  BY <1>1, <1>9 DEF PauseTimesOut, FrontierFails
<1>10. CASE \/ TopDrain \/ TailDrain \/ PublishEdit \/ ReconcileFeedback \/ PumpDone \/ PauseGranted
            \/ ResumeEnds \/ NoStateRequest \/ StateRequest \/ Capture \/ (CatchUp /\ Behind = {})
            \/ \E q \in Params : HostRead(q)
  <2>1. Control
    BY <1>10 DEF Control
  <2>2. control.at \notin {"show", "acknowledge"}
    BY <1>10 DEF TopDrain, TailDrain, PublishEdit, ReconcileFeedback, PumpDone, PauseGranted, ResumeEnds,
       NoStateRequest, StateRequest, Capture, CatchUp, HostRead, At
  <2>3. SlidersKept /\ obs' = obs
    BY <2>1, <2>2, ControlFrame DEF CatchUpAcknowledge, HostShow, At
  <2>4. engine' = engine /\ overrides' = overrides /\ to_dsp' = to_dsp
    BY <1>10 DEF TopDrain, TailDrain, PublishEdit, ReconcileFeedback, PumpDone, PauseGranted, ResumeEnds,
       NoStateRequest, StateRequest, Capture, CatchUp, Behind, HostRead
  <2>5. control'.at \notin {"show", "acknowledge"}
    BY <1>0, <1>10, ControlSteps DEF AsksFor, Moves, Hosts, Returns, Turns
  <2> QED BY <1>3, <2>3, <2>4, <2>5, NotAnswering, NewestKept DEF SlidersKept, Sent
<1>11. ASSUME NEW q \in Params, PerformEdit(q) PROVE NewestOf(p)'
  <2>1. /\ engine' = engine /\ descriptor' = descriptor /\ obs' = obs
        /\ writes + 1 \in Values /\ writes + 1 # None
    BY <1>0, <1>11, ValueFacts DEF PerformEdit, Write, Values
  <2>2. control.at = "pump" /\ control'.at = "publish"
    BY <1>0, <1>11, ControlSteps DEF PerformEdit, Moves, Turns, At
  <2>3. SlidersKept /\ (Answered(p)' => Answered(p))
    BY <2>1, <2>2, NotAnswering DEF SlidersKept
  <2>4. CASE p = q
    <3>1. Newest(p)' = writes + 1
      <4>1. CASE q \notin Kept /\ Len(to_dsp) < RingCapacity
        <5>1. to_dsp' = Append(to_dsp, [id |-> q, value |-> writes + 1]) /\ overrides' = overrides
          BY <1>11, <4>1 DEF PerformEdit
        <5>2. Sent(p)' = writes + 1
          BY <1>0, <2>1, <2>4, <5>1, AppendSends
        <5>3. overrides[p] = None
          BY <2>4, <4>1 DEF Kept
        <5> QED BY <2>1, <5>1, <5>2, <5>3 DEF Newest
      <4>2. CASE ~(q \notin Kept /\ Len(to_dsp) < RingCapacity)
        <5>1. overrides' = [overrides EXCEPT ![q] = writes + 1]
          BY <1>1, <1>11, <4>2 DEF PerformEdit
        <5>2. overrides'[p] = writes + 1
          BY <1>0, <2>4, <5>1 DEF MaybeValues
        <5> QED BY <2>1, <5>2 DEF Newest
      <4> QED BY <4>1, <4>2
    <3>2. descriptor[p].value <= writes /\ descriptor[p].value \in Nat
      BY <1>0, <1>4, Numbers DEF Counted
    <3> QED BY <1>0, <2>1, <3>1, <3>2 DEF NewestOf
  <2>5. CASE p # q
    <3>1. Sent(p)' = Sent(p)
      <4>1. CASE to_dsp' = Append(to_dsp, [id |-> q, value |-> writes + 1])
        BY <1>0, <2>1, <2>5, <4>1, AppendSends
      <4>2. CASE to_dsp' = to_dsp
        BY <4>2 DEF Sent
      <4> QED BY <1>11, <4>1, <4>2 DEF PerformEdit
    <3>2. overrides'[p] = overrides[p]
      BY <1>0, <1>11, <2>5 DEF PerformEdit, MaybeValues
    <3>3. Newest(p)' = Newest(p)
      BY <2>1, <3>1, <3>2 DEF Newest
    <3> QED BY <1>3, <2>1, <2>3, <3>3 DEF NewestOf
  <2> QED BY <2>4, <2>5
<1>12. CASE ReconcileNative
  <2>1. /\ Flushed(Queued(engine, overrides)) /\ SyncMirror(engine', overrides) /\ overrides' = NoValues
        /\ to_dsp' = to_dsp /\ obs' = obs
    BY <1>12 DEF ReconcileNative
  <2>2. Handed(engine, overrides, writes') /\ writes' \in 0 .. MaxWrites /\ writes <= writes'
    BY <1>0, <2>1, FlushHands
  <2>3. to_dsp = <<>>
    BY <1>0, <1>3, <1>12 DEF ReconcileNative, PauseInv, Granted, Settled, At
  <2>4. Sent(p) = None /\ Sent(p)' = None /\ overrides'[p] = None
    BY <2>1, <2>3, LastEmpty, ValueFacts DEF Sent
  <2>5. Newest(p)' = Newest(p) \/ Newest(p)' = writes'
    BY <2>2, <2>4 DEF Newest, Handed
  <2>6. SlidersKept
    BY <1>0, <2>1, <2>2, SyncEffect DEF Handed
  <2>7. control'.at \in {"resuming", "catch_up"}
    BY <1>0, <1>12, ControlSteps DEF Moves, Turns
  <2>8. Answered(p)' => Answered(p)
    BY <2>6, <2>7, NotAnswering
  <2>9. descriptor'[p].value = descriptor[p].value /\ descriptor[p].value \in Nat /\ descriptor[p].value <= writes
    BY <1>0, <1>4, <2>6, Numbers DEF SlidersKept, Counted
  <2> QED BY <1>0, <1>3, <2>1, <2>2, <2>5, <2>8, <2>9 DEF NewestOf
<1>13. CASE CatchUp /\ Behind # {}
  <2>1. /\ Flushed(Queued(engine, ValuesOfBehind)) /\ SyncMirror(engine', ValuesOfBehind) /\ overrides' = overrides
        /\ to_dsp' = to_dsp /\ obs' = obs
    BY <1>13 DEF CatchUp, Behind, ValuesOfBehind
  <2>2. ValuesOfBehind \in MaybeValues
    BY <1>0, DescriptorFields DEF ValuesOfBehind, MaybeValues, Maybe, TypeOK
  <2>3. Handed(engine, ValuesOfBehind, writes') /\ writes' \in 0 .. MaxWrites /\ writes <= writes'
    BY <1>0, <2>1, <2>2, FlushHands
  <2>4. to_dsp = <<>> /\ Kept = {}
    BY <1>0, <1>3, <1>13 DEF CatchUp, PauseInv, Granted, Frontier, Settled, At
  <2>5. Sent(p) = None /\ Sent(p)' = None /\ overrides[p] = None
    BY <2>1, <2>4, LastEmpty DEF Sent, Kept
  <2>6. Newest(p)' = engine'.mirror[p] /\ Newest(p) = engine.mirror[p]
    BY <2>1, <2>5 DEF Newest
  <2>7. SlidersKept
    BY <1>0, <2>1, <2>3, SyncEffect DEF Handed
  <2>8. descriptor'[p].value = descriptor[p].value /\ descriptor[p].value \in Nat /\ descriptor[p].value <= writes
    BY <1>0, <1>4, <2>7, Numbers DEF SlidersKept, Counted
  <2>9. CASE p \in Behind
    <3>1. ValuesOfBehind[p] = descriptor[p].value /\ descriptor[p].value # None
      BY <1>0, <2>9, DescriptorFields, ValueFacts DEF ValuesOfBehind, TypeOK
    <3>2. engine'.mirror[p] = descriptor[p].value \/ engine'.mirror[p] = writes'
      BY <2>3, <3>1 DEF Handed
    <3> QED BY <1>0, <2>3, <2>6, <2>8, <3>2 DEF NewestOf
  <2>10. CASE p \notin Behind
    <3>1. ValuesOfBehind[p] = None /\ Answered(p)
      BY <2>10 DEF ValuesOfBehind, Behind, Answered, Acknowledged
    <3>2. engine'.mirror[p] = engine.mirror[p] \/ engine'.mirror[p] = writes'
      BY <2>3, <3>1 DEF Handed
    <3> QED BY <1>0, <1>3, <2>1, <2>3, <2>6, <2>8, <3>1, <3>2 DEF NewestOf
  <2> QED BY <2>9, <2>10
<1>14. CASE CatchUpAcknowledge
  <2>1. /\ engine' = engine /\ overrides' = overrides /\ to_dsp' = to_dsp /\ obs' = obs
        /\ control.at = "acknowledge"
    BY <1>14 DEF CatchUpAcknowledge, At
  <2>2. /\ descriptor'[p].value = descriptor[p].value
        /\ descriptor'[p].pending = descriptor[p].pending
        /\ descriptor'[p].applied = IF Reading(p) THEN control.read[p] ELSE descriptor[p].applied
    BY <1>0, <1>14 DEF CatchUpAcknowledge, TypeOK, Descriptors
  <2>3. control'.at \in {"capture", "catch_up", "resuming"}
    BY <1>0, <1>14, ControlSteps DEF Moves, Turns
  <2>4. Answered(p)' => Answered(p)
    BY <2>1, <2>2, <2>3 DEF Answered, Acknowledged, At
  <2> QED BY <1>3, <2>1, <2>2, <2>4, NewestKept DEF Sent
<1>15. ASSUME NEW q \in Params, HostApply(q) PROVE NewestOf(p)'
  <2>1. /\ engine' = engine /\ overrides' = overrides /\ descriptor' = descriptor /\ obs' = obs
        /\ control.at = "apply" /\ Reading(q)
    BY <1>15 DEF HostApply, At
  <2>2. /\ to_dsp' = Append(to_dsp, [id |-> q, value |-> descriptor[q].value])
        /\ descriptor[q].value \in Values /\ descriptor[q].value # None
    BY <1>0, <1>15, DescriptorFields, ValueFacts DEF HostApply, TypeOK
  <2>3. Sent(p)' = IF p = q THEN descriptor[q].value ELSE Sent(p)
    BY <1>0, <2>2, AppendSends
  <2>4. CASE p = q
    <3>1. overrides[p] = None
      BY <1>3, <2>1 DEF Kept
    <3>2. Newest(p)' = descriptor[p].value
      BY <2>1, <2>2, <2>3, <2>4, <3>1 DEF Newest
    <3>3. descriptor[p].value \in Nat
      BY <1>0, Numbers
    <3> QED BY <2>1, <3>2, <3>3 DEF NewestOf
  <2>5. CASE p # q
    <3>1. control'.at = "show" /\ control'.read = [control.read EXCEPT ![q] = descriptor[q].value]
      BY <1>0, <1>15, ControlSteps DEF Moves, Turns
    <3>2. ~Reading(p)'
      BY <1>0, <1>4, <2>1, <2>5, <3>1 DEF OneReading, Reading, MaybeValues
    <3>3. Answered(p)' => Answered(p)
      BY <2>1, <3>1, <3>2 DEF Answered, Acknowledged, At
    <3> QED BY <1>3, <2>1, <2>3, <2>5, <3>3, NewestKept
  <2> QED BY <2>4, <2>5
<1>17. ASSUME NEW q \in Params, HostApplyLater(q) PROVE NewestOf(p)'
  <2>1. /\ engine' = engine /\ overrides' = overrides /\ descriptor' = descriptor /\ obs' = obs
        /\ to_dsp' = to_dsp
    BY <1>17 DEF HostApplyLater
  <2>2. control'.at = "host"
    BY <1>0, <1>17, ControlSteps DEF Hosts, Turns
  <2>3. Answered(p)' => Answered(p)
    BY <2>1, <2>2, NotAnswering DEF SlidersKept
  <2> QED BY <1>3, <2>1, <2>3, NewestKept DEF Sent
<1>16. ASSUME NEW q \in Params, HostShow(q) PROVE NewestOf(p)'
  <2>1. /\ engine' = engine /\ overrides' = overrides /\ to_dsp' = to_dsp /\ obs' = obs
        /\ control.at = "show" /\ Reading(q)
    BY <1>16 DEF HostShow, At
  <2>2. control'.at = "host"
    BY <1>0, <1>16, ControlSteps DEF Hosts, Turns
  <2>3. /\ descriptor'[p].value = descriptor[p].value
        /\ descriptor'[p].pending = descriptor[p].pending
        /\ descriptor'[p].applied = IF p = q THEN control.generation ELSE descriptor[p].applied
    BY <1>0, <1>16 DEF HostShow, TypeOK, Descriptors
  <2>4. Answered(p)' => Answered(p)
    BY <2>1, <2>2, <2>3 DEF Answered, Acknowledged, At
  <2> QED BY <1>3, <2>1, <2>3, <2>4, NewestKept DEF Sent
<1> QED BY <1>5, <1>6, <1>7, <1>8, <1>9, <1>10, <1>11, <1>12, <1>13, <1>14, <1>15, <1>16, <1>17 DEF Next, Control

-----------------------------------------------------------------------------
(***************************************************************************)
(* The theorems                                                             *)
(***************************************************************************)
LEMMA ParameterInit ==
  ASSUME Init
  PROVE  ParameterInv
<1>1. /\ \A p \in Params : /\ descriptor[p].value = 0 /\ descriptor[p].pending = 0
                           /\ descriptor[p].applied = 0 /\ descriptor[p].current = 0
      /\ \A p \in Params : controller[p] = 0 /\ engine.processor[p] = 0 /\ engine.mirror[p] = 0
      /\ engine.queued = NoValues /\ engine.updates = NoValues
  BY DEF Init, Zero
<1>2. /\ control.at = "top" /\ control.why = "none" /\ control.read = NoValues /\ control.pass = 0
      /\ ~wants_pause /\ dsp = "wait" /\ writes = 0 /\ ~resync /\ ~late /\ ~shutdown
      /\ to_dsp = <<>> /\ to_control = <<>> /\ obs = None
  BY DEF Init, Top
<1>3. overrides = NoValues /\ Kept = {}
  BY ValueFacts DEF Init, Kept
<1>4. TypeOK
  <2>1. descriptor \in [Params -> Descriptors]
    BY ValueFacts DEF Init, Descriptors
  <2>2. engine \in Engines
    BY ValueFacts DEF Init, Engines, Zero, MaybeValues
  <2>3. controller \in [Params -> Values] /\ refused \in SUBSET Params
    BY ValueFacts DEF Init, Zero
  <2>4. control \in Controls
    <3>1. "top" \in Places /\ "none" \in Reasons
      BY Named
    <3> QED BY <3>1, ValueFacts DEF Init, Top, Controls, MaybeValues
  <2>5. Cardinality(Kept) <= OverrideCapacity
    BY <1>3, FS_EmptySet
  <2>6. overrides \in [Params -> Maybe]
    BY <1>3, ValueFacts DEF MaybeValues
  <2>7. /\ to_dsp \in Seq(Updates) /\ Len(to_dsp) <= RingCapacity
        /\ to_control \in Seq(Updates) /\ Len(to_control) <= RingCapacity
    BY <1>2, EmptyRing
  <2>8. /\ resync \in BOOLEAN /\ shutdown \in BOOLEAN /\ wants_pause \in BOOLEAN
        /\ processed \in BOOLEAN /\ late \in BOOLEAN
    BY DEF Init
  <2>9. dsp \in Steps /\ writes \in 0 .. MaxWrites /\ obs \in Params \cup {None}
    BY <1>2, Named
  <2> QED BY <2>1, <2>2, <2>3, <2>4, <2>5, <2>6, <2>7, <2>8, <2>9 DEF TypeOK
<1>5. EngineInv
  BY <1>1, <1>2, ValueFacts DEF EngineInv, Coherent, Settled
<1>6. GenerationInv
  BY <1>1, <1>2, ValueFacts DEF GenerationInv, At
<1>7. PauseInv
  BY <1>2 DEF PauseInv, Pausing, Granted, Frontier, At
<1>8. FlowInv
  BY <1>1, <1>2, LastEmpty DEF FlowInv, HeardMirror, StillAgrees, ShownOnTheWay, Heard
<1>9. CaptureInv
  BY <1>2 DEF CaptureInv, At
<1>10. HandshakeInv
  BY <1>2, <1>3 DEF HandshakeInv, Settled
<1>11. NewestInv
  BY <1>1, <1>2, <1>3, ValueFacts, LastEmpty DEF NewestInv, Newest, Sent
<1> QED BY <1>4, <1>5, <1>6, <1>7, <1>8, <1>9, <1>10, <1>11 DEF ParameterInv

(* Every step of OBS, of the worker and of the control thread keeps the        *)
(* invariant.                                                                  *)
LEMMA ParameterStep ==
  ASSUME ParameterInv, [Next]_vars
  PROVE  ParameterInv'
BY TypeStep, EngineStep, GenerationStep, PauseStep, FlowStep, CaptureStep, HandshakeStep, NewestStep
   DEF ParameterInv

(* What the invariant says once nothing is on its way, and of a capture. *)
LEMMA InvariantSettles ==
  ASSUME ParameterInv
  PROVE  ValuesSettle
<1>0. /\ TypeOK /\ EngineInv /\ PauseInv /\ FlowInv /\ CaptureInv /\ NewestInv
      /\ controller \in [Params -> Values] /\ engine.processor \in [Params -> Values]
      /\ engine.mirror \in [Params -> Values]
  BY DEF ParameterInv, TypeOK, Engines
<1>1. engine.queued = NoValues => engine.mirror = engine.processor
  <2>1. SUFFICES ASSUME engine.queued = NoValues PROVE engine.mirror = engine.processor
    OBVIOUS
  <2>2. \A p \in Params : engine.mirror[p] = engine.processor[p]
    BY <1>0, <2>1, ValueFacts DEF EngineInv, Coherent
  <2> QED BY <1>0, <2>2
<1>2. ASSUME Quiet
      PROVE  /\ BothHalves
             /\ \A p \in Params : /\ descriptor[p].current = engine.processor[p]
                                  /\ late \/ engine.processor[p] >= descriptor[p].value
  <2>1. ASSUME NEW p \in Params
        PROVE  /\ p \notin refused => controller[p] = engine.mirror[p]
               /\ descriptor[p].current = engine.mirror[p]
               /\ late \/ engine.mirror[p] >= descriptor[p].value
    <3>1. Sent(p) = None /\ Heard(p) = None /\ overrides[p] = None
      BY <1>2, LastEmpty DEF Quiet, Sent, Heard, Kept
    <3>2. Still(p) /\ Acknowledged(p)
      BY <1>2, <3>1, ValueFacts DEF Quiet, Still, Delivering, Acknowledged
    <3>3. late \/ descriptor[p].value <= engine.mirror[p]
      BY <1>0, <1>2, <3>1, <3>2, ValueFacts DEF NewestInv, Newest, Answered, Quiet
    <3>4. descriptor[p].value \in Nat /\ engine.mirror[p] \in Nat
      BY <1>0, Numbers, ValueFacts
    <3> QED BY <1>0, <3>2, <3>3, <3>4 DEF FlowInv, StillAgrees
  <2>2. engine.mirror = engine.processor
    BY <1>1, <1>2 DEF Quiet
  <2> QED BY <2>1, <2>2 DEF BothHalves
<1>3. ASSUME At("capture"), to_dsp = <<>> PROVE BothHalves
  <2>1. \A p \in Params \ refused : controller[p] = engine.mirror[p]
    BY <1>0, <1>3 DEF CaptureInv
  <2>2. engine.queued = NoValues
    BY <1>0, <1>3 DEF PauseInv, Granted, Frontier, EngineInv, Settled, At
  <2> QED BY <1>1, <2>1, <2>2 DEF BothHalves
<1> QED BY <1>2, <1>3 DEF ValuesSettle

(* However OBS, the worker and the control thread interleave, for every number *)
(* of parameters and every capacity of the rings and of the override buffer:   *)
(* what is still agrees everywhere, a value about to be shown is on its way,   *)
(* what is read at a frontier has been reconciled, and without a pause timing  *)
(* out no acknowledged slider's value is older than what the processor ends    *)
(* with.                                                                       *)
THEOREM ParameterSafety == Spec => []ParameterInv
<1>1. Init => ParameterInv
  BY ParameterInit
<1>2. ParameterInv /\ [Next]_vars => ParameterInv'
  BY ParameterStep
<1> QED BY <1>1, <1>2, PTL DEF Spec

(* Every variable keeps its type: neither ring nor the override buffer holds   *)
(* more than its capacity.                                                     *)
THEOREM HostParameterTypes == Spec => []TypeOK
<1>1. ParameterInv => TypeOK
  BY DEF ParameterInv
<1> QED BY <1>1, ParameterSafety, PTL

(* Once nothing is on its way the processor, the mirror and the value OBS      *)
(* shows are one, and not older than the slider's unless a pause has timed     *)
(* out; a state is captured from a mirror that agrees with the processor; and  *)
(* then the controller agrees too, but for the parameters of which it has      *)
(* refused the last value handed back to it, a refusal the code discards.      *)
THEOREM HostParametersSettle == Spec => []ValuesSettle
<1>1. ParameterInv => ValuesSettle
  BY InvariantSettles
<1> QED BY <1>1, ParameterSafety, PTL
=============================================================================
