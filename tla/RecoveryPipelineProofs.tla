----------------------- MODULE RecoveryPipelineProofs -----------------------
(***************************************************************************)
(* Proofs about RecoveryPipeline, for every set of offsets, batch size and *)
(* number of reports: type correctness, and the accounting of candidates.  *)
(***************************************************************************)
EXTENDS RecoveryPipeline, FiniteSetTheorems, WellFoundedInduction, TLAPS

(* A set of candidates is finite and has a cardinality.                    *)
LEMMA IdsFinite ==
    ASSUME events \in Seq(Phys), NEW S \in SUBSET Ids
    PROVE  IsFiniteSet(S) /\ Cardinality(S) \in Nat
<1>1. Len(events) \in Nat
  OBVIOUS
<1>2. IsFiniteSet(Ids)
  BY <1>1, FS_Interval DEF Ids
<1>3. IsFiniteSet(S)
  BY <1>2, FS_Subset
<1> QED
  BY <1>3, FS_CardinalityType

(* There are as many candidates as reports.                                *)
LEMMA IdsCount ==
    ASSUME events \in Seq(Phys)
    PROVE  Ids \in SUBSET Nat /\ Len(events) \in Nat /\ Cardinality(Ids) = Len(events)
<1>1. Len(events) \in Nat
  OBVIOUS
<1>2. Cardinality(1..Len(events)) = IF 1 > Len(events) THEN 0 ELSE Len(events) - 1 + 1
  BY <1>1, 1 \in Int, Len(events) \in Int, FS_Interval
<1>3. Cardinality(Ids) = Len(events)
  BY <1>1, <1>2 DEF Ids
<1> QED
  BY <1>1, <1>3 DEF Ids

(* Deduplication leaves a subset, so the number of candidates it drops is  *)
(* a natural number.                                                       *)
LEMMA DedupCount ==
    ASSUME events \in Seq(Phys), NEW S \in SUBSET Ids
    PROVE  /\ FirstReports(S) \in SUBSET S
           /\ Cardinality(S) - Cardinality(FirstReports(S)) \in Nat
<1>1. FirstReports(S) \in SUBSET S
  BY DEF FirstReports
<1>2. IsFiniteSet(S) /\ Cardinality(S) \in Nat
  BY IdsFinite
<1>3. Cardinality(FirstReports(S)) \in Nat
  BY <1>1, IdsFinite
<1>4. Cardinality(FirstReports(S)) <= Cardinality(S)
  BY <1>1, <1>2, FS_Subset
<1> QED
  BY <1>1, <1>2, <1>3, <1>4

(* Every step of the pipeline preserves the type invariant.                *)
LEMMA TypeStep == TypeOK /\ [Next]_vars => TypeOK'
<1> SUFFICES ASSUME TypeOK, [Next]_vars PROVE TypeOK'
  OBVIOUS
<1> USE ConstantsAssumption DEF TypeOK
<1>0. UNCHANGED events => Ids' = Ids /\ Channel' = Channel
  BY DEF Ids, Channel
<1>a. chanA.ids \in SUBSET Ids /\ chanB.ids \in SUBSET Ids
  BY DEF Channel
<1>b. /\ Empty \in Channel
      /\ Done \in Channel
      /\ \A S \in SUBSET Ids : Item(S) \in Channel
  BY DEF Channel, Empty, Done, Item
<1>1. ASSUME NEW p \in Phys, OnEvent(p) PROVE TypeOK'
  <2>1. Ids \in SUBSET Ids' /\ Len(events) + 1 \in Ids'
    BY <1>1 DEF OnEvent, Ids
  <2> QED
    BY <1>1, <2>1 DEF OnEvent, accVars, wVars, Channel, Item, AccGone
<1>2. ASSUME MainStep PROVE TypeOK'
  <2>1. CASE ScrubOk
    BY <2>1 DEF ScrubOk, accVars, wVars, Ids, Channel
  <2>2. CASE SendDone
    BY <2>2 DEF SendDone, accVars, wVars, Ids, Channel, Done
  <2>3. CASE JoinAccumulator
    BY <2>3 DEF JoinAccumulator, Fail, accVars, wVars, Ids, Channel
  <2>4. CASE JoinWriter
    BY <2>4 DEF JoinWriter, Fail, accVars, wVars, Ids, Channel
  <2>5. CASE Reconcile
    BY <2>5 DEF Reconcile, Fail, accVars, wVars, Ids, Channel
  <2>6. ASSUME NEW sc \in ScrubStats, Exit(sc) PROVE TypeOK'
    <3>1. exit' \in 0..6
      BY <2>6 DEF Exit, ExitCode
    <3> QED
      BY <2>6, <3>1 DEF Exit, accVars, wVars, Ids, Channel
  <2> QED
    BY <1>2, <2>1, <2>2, <2>3, <2>4, <2>5, <2>6 DEF MainStep
<1>3. CASE ScrubErr
  BY <1>3 DEF ScrubErr, accVars, wVars, Ids, Channel
<1>4. ASSUME AccStep PROVE TypeOK'
  <2>1. CASE AccRecvCandidate
    BY <1>0, <1>a, <1>b, <2>1 DEF AccRecvCandidate, mainVars, wVars
  <2>2. CASE AccRecvDone
    BY <2>2 DEF AccRecvDone, mainVars, wVars, Ids, Channel, Empty
  <2>3. CASE AccIdle
    BY <2>3 DEF AccIdle, mainVars, wVars, Ids, Channel
  <2>4. CASE AccHandOver
    BY <1>0, <1>b, <2>4 DEF AccHandOver, mainVars, wVars
  <2>5. CASE AccSendDone
    BY <2>5 DEF AccSendDone, mainVars, wVars, Ids, Channel, Done
  <2> QED
    BY <1>4, <2>1, <2>2, <2>3, <2>4, <2>5 DEF AccStep
<1>5. CASE AccPanic
  BY <1>5 DEF AccPanic, mainVars, wVars, Ids, Channel
<1>6. ASSUME WriterStep PROVE TypeOK'
  <2>1. CASE WriterRecvBatch
    BY <1>0, <1>a, <1>b, <2>1 DEF WriterRecvBatch, mainVars, accVars
  <2>2. CASE WriterRecvEnd
    BY <2>2 DEF WriterRecvEnd, mainVars, accVars, Ids, Channel, Empty
  <2>3. CASE FlushBegin
    <3>1. /\ work' = FirstReports(pending)
          /\ work' \in SUBSET pending
          /\ Cardinality(pending) - Cardinality(work') \in Nat
      BY <2>3, DedupCount DEF FlushBegin
    <3>2. stats' \in Counter
      BY <2>3, <3>1 DEF FlushBegin, Counter, Buckets, Verdicts, SubBuckets
    <3>3. window' \in {"closed", "frozen", "assess", "offline"}
      BY <2>3 DEF FlushBegin, Windows
    <3>4. verdict' = [i \in DOMAIN verdict \cup (pending \ work') |->
                       IF i \in pending \ work' THEN "deduped" ELSE verdict[i]]
      BY <2>3 DEF FlushBegin
    <3>5. DOMAIN verdict' \in SUBSET Ids
      BY <3>4
    <3>6. \A i \in DOMAIN verdict' : verdict'[i] \in Verdicts
      BY <3>4 DEF Verdicts
    <3> QED
      BY <1>0, <2>3, <3>1, <3>2, <3>3, <3>5, <3>6 DEF FlushBegin, mainVars, accVars
  <2>4. CASE FreezeTimeout
    BY <2>4 DEF FreezeTimeout, mainVars, accVars, Ids, Channel
  <2>5. ASSUME NEW v \in Verdicts, Classify(v) PROVE TypeOK'
    <3>1. stats' \in Counter
      BY <2>5 DEF Classify, Count, Counter
    <3>2. PICK i \in work : work' = work \ {i} /\
             verdict' = [k \in DOMAIN verdict \cup {i} |-> IF k = i THEN v ELSE verdict[k]]
      BY <2>5 DEF Classify
    <3>3. /\ DOMAIN verdict' \in SUBSET Ids
          /\ \A k \in DOMAIN verdict' : verdict'[k] \in Verdicts
      BY <3>2
    <3> QED
      BY <2>5, <3>1, <3>2, <3>3 DEF Classify, mainVars, accVars, Ids, Channel
  <2>6. ASSUME NEW t \in BOOLEAN, FlushEnd(t) PROVE TypeOK'
    BY <2>6 DEF FlushEnd, mainVars, accVars, Ids, Channel
  <2> QED
    BY <1>6, <2>1, <2>2, <2>3, <2>4, <2>5, <2>6 DEF WriterStep
<1>7. CASE WriterPanic
  BY <1>7 DEF WriterPanic, mainVars, accVars, Ids, Channel
<1>8. CASE UNCHANGED vars
  BY <1>8 DEF vars, mainVars, accVars, wVars, Ids, Channel
<1> QED
  BY <1>1, <1>2, <1>3, <1>4, <1>5, <1>6, <1>7, <1>8 DEF Next

(* The initial states are well typed.                                      *)
LEMMA TypeInit == Init => TypeOK
<1> SUFFICES ASSUME Init PROVE TypeOK
  OBVIOUS
<1>1. Empty \in Channel
  BY DEF Channel, Empty
<1>2. stats \in Counter
  BY DEF Init, Counter
<1>3. DOMAIN verdict = {}
  BY DEF Init
<1>4. mode \in Modes /\ accPc \in {"absent", "waiting"} /\ wPc \in {"absent", "recv"}
  BY DEF Init
<1>5. scrub \in ScrubStats
  BY DEF Init, ScrubStats
<1>6. events \in Seq(Phys) /\ sent \in Nat /\ exit \in 0..6
  BY DEF Init
<1> QED
  BY <1>1, <1>2, <1>3, <1>4, <1>5, <1>6 DEF Init, TypeOK

(* Type correctness of the pipeline, for every batch size and any number   *)
(* of reports.                                                             *)
THEOREM TypeCorrect == Spec => []TypeOK
  BY TypeInit, TypeStep, PTL DEF Spec

-----------------------------------------------------------------------------
(* The inductive invariant behind the accounting. Conservation alone is    *)
(* not inductive: that nothing is in flight any more when the writer       *)
(* returns Ok rests on the order of the shutdown handshake (main's Done,   *)
(* the accumulator's last batch, its own Done, the writer's drain), and    *)
(* that the counters add up rests on the places being disjoint.            *)

(* Only an item message carries candidates.                                *)
ChannelsShaped ==
    /\ chanA.tag # "item" => chanA.ids = {}
    /\ chanB.tag # "item" => chanB.ids = {}

(* A candidate is in at most one place.                                    *)
Disjoint ==
    /\ chanA.ids \cap (batch \cup chanB.ids \cup pending \cup work \cup DOMAIN verdict) = {}
    /\ batch \cap (chanB.ids \cup pending \cup work \cup DOMAIN verdict) = {}
    /\ chanB.ids \cap (pending \cup work \cup DOMAIN verdict) = {}
    /\ pending \cap (work \cup DOMAIN verdict) = {}
    /\ work \cap DOMAIN verdict = {}

(* The counters count the classified candidates.                           *)
Counted ==
    /\ Cardinality(DOMAIN verdict) = Classified(stats)
    /\ SubTotal(stats) = stats["mismatch"]

(* While no thread has died, every report was sent and is somewhere.       *)
Placed ==
    mode # "plain" /\ Intact =>
        /\ sent = Len(events)
        /\ chanA.ids \cup batch \cup chanB.ids \cup pending \cup work \cup DOMAIN verdict = Ids

(* The shutdown handshake, thread by thread.                               *)
MainSide ==
    /\ mode = "plain" <=> accPc = "absent"
    /\ mode = "plain" <=> wPc = "absent"
    /\ mode = "plain" => mainPc \in {"scrubbing", "verdict", "exited"}
    /\ chanA.tag = "done" => mainPc \notin {"scrubbing", "sendDone"}
    /\ mode # "plain" /\ mainPc \in {"joinWriter", "reconcile", "verdict"} => accPc = "returned"
    /\ mode # "plain" /\ mainPc \in {"reconcile", "verdict"} => wPc = "ok"
    /\ mode # "plain" /\ mainPc = "exited" /\ exit # 1 => accPc = "returned" /\ wPc = "ok"
AccSide ==
    /\ accPc \in {"waiting", "ending", "returned", "panicked"} => batch = {}
    /\ accPc \in {"flushing", "ending", "returned"} /\ Intact =>
          chanA = Empty /\ mainPc \notin {"scrubbing", "sendDone"}
    /\ chanB.tag = "done" => accPc = "returned"
WriterSide ==
    /\ draining /\ accPc # "panicked" => accPc = "returned" /\ chanB = Empty
    /\ wPc = "ok" => draining /\ pending = {}
    /\ wPc \in {"recv", "flush", "ok"} => work = {}
    /\ wPc = "loop" /\ work # {} => pending = {}

IInv == TypeOK /\ ChannelsShaped /\ Disjoint /\ Counted /\ Placed
            /\ MainSide /\ AccSide /\ WriterSide

(* The parts of IInv that speak of where the candidates are, and those     *)
(* that speak of how far the threads have come.                            *)
Data    == ChannelsShaped /\ Disjoint /\ Counted /\ Placed
Control == MainSide /\ AccSide /\ WriterSide

(* Disjoint sets of candidates: their sizes add up.                        *)
LEMMA DisjointUnion ==
    ASSUME NEW S, IsFiniteSet(S), NEW T, IsFiniteSet(T), S \cap T = {}
    PROVE  IsFiniteSet(S \cup T) /\ Cardinality(S \cup T) = Cardinality(S) + Cardinality(T)
<1>1. Cardinality(S) \in Nat /\ Cardinality(T) \in Nat
  BY FS_CardinalityType
<1>2. Cardinality(S \cap T) = 0
  BY FS_EmptySet
<1>3. IsFiniteSet(S \cup T)
  BY FS_Union, Zenon
<1>4. Cardinality(S \cup T) = Cardinality(S) + Cardinality(T) - Cardinality(S \cap T)
  BY FS_Union, Zenon
<1>5. Cardinality(S \cup T) = Cardinality(S) + Cardinality(T)
  BY <1>1, <1>2, <1>4
<1> QED
  BY <1>3, <1>5

(* Counting a verdict adds one classified candidate, and to the mismatches *)
(* exactly what it adds to their sub-buckets.                              *)
LEMMA CountAdds ==
    ASSUME NEW st \in Counter, NEW v \in Verdicts
    PROVE  /\ Classified(Count(st, v)) = Classified(st) + 1
           /\ SubTotal(st) = st["mismatch"] =>
                 SubTotal(Count(st, v)) = Count(st, v)["mismatch"]
<1>1. \A b \in Buckets : st[b] \in Nat
  BY DEF Counter
<1> QED
  BY <1>1 DEF Count, Classified, SubTotal, Buckets, Verdicts, SubBuckets

(* The accounting holds before the first report.                           *)
LEMMA InvInit == Init => IInv
<1> SUFFICES ASSUME Init PROVE IInv
  OBVIOUS
<1>1. TypeOK
  BY TypeInit
<1>2. DOMAIN verdict = {} /\ Ids = {} /\ Len(events) = 0
  BY DEF Init, Ids
<1>3. Cardinality(DOMAIN verdict) = 0
  BY <1>2, FS_EmptySet
<1>4. chanA.ids = {} /\ chanB.ids = {} /\ chanA.tag = "empty" /\ chanB.tag = "empty"
  BY DEF Init, Empty
<1>5. Counted
  BY <1>3 DEF Init, Counted, Classified, SubTotal, Buckets, Verdicts, SubBuckets
<1>6. ChannelsShaped /\ Disjoint /\ Placed
  BY <1>2, <1>4 DEF Init, ChannelsShaped, Disjoint, Placed
<1>7. Control
  BY <1>4 DEF Init, Control, MainSide, AccSide, WriterSide
<1> QED
  BY <1>1, <1>5, <1>6, <1>7 DEF IInv, Control

(* Every step preserves the accounting and the shutdown handshake.         *)
LEMMA InvStep == IInv /\ [Next]_vars => IInv'
<1> SUFFICES ASSUME IInv, [Next]_vars PROVE Data' /\ Control'
  BY TypeStep DEF IInv, Data, Control
<1> USE DEF IInv
<1>0. UNCHANGED events => Ids' = Ids
  BY DEF Ids
<1>a. chanA.ids \in SUBSET Ids /\ chanB.ids \in SUBSET Ids
  BY DEF TypeOK, Channel
<1>b. IsFiniteSet(DOMAIN verdict) /\ IsFiniteSet(pending) /\ IsFiniteSet(work)
  BY IdsFinite DEF TypeOK
<1>c. /\ Empty.tag = "empty" /\ Empty.ids = {}
      /\ Done.tag = "done" /\ Done.ids = {}
      /\ \A S : Item(S).tag = "item" /\ Item(S).ids = S
  BY DEF Empty, Done, Item
<1>d. UNCHANGED <<events, mode, sent, chanA, accVars, chanB, wVars>> => Data'
  BY <1>0 DEF accVars, wVars, Data, ChannelsShaped, Disjoint, Counted, Placed, Intact,
              Classified, SubTotal
<1>e. UNCHANGED <<stats, verdict>> => Counted'
  BY DEF Counted, Classified, SubTotal
<1>1. ASSUME NEW p \in Phys, OnEvent(p) PROVE Data' /\ Control'
  <2>1. /\ Len(events) \in Nat
        /\ Len(events') = Len(events) + 1
        /\ Ids' = Ids \cup {Len(events) + 1}
        /\ Len(events) + 1 \notin Ids
    BY <1>1 DEF OnEvent, Ids, TypeOK
  <2>2. ChannelsShaped' /\ Counted'
    BY <1>1, <1>c, <1>e DEF OnEvent, ChannelsShaped, wVars
  <2>3. Disjoint'
    BY <1>1, <1>a, <1>c, <2>1 DEF OnEvent, Disjoint, TypeOK, accVars, wVars
  <2>4. Control'
    BY <1>1, <1>c DEF OnEvent, Control, MainSide, AccSide, WriterSide, accVars, wVars,
                      Intact, AccGone
  <2>5. Placed'
    BY <1>1, <1>c, <2>1 DEF OnEvent, Placed, accVars, wVars, Intact, AccGone, AccSide
  <2> QED
    BY <2>2, <2>3, <2>4, <2>5 DEF Data
<1>2. ASSUME MainStep PROVE Data' /\ Control'
  <2>1. CASE ScrubOk
    <3>1. Data'
      BY <1>d, <2>1 DEF ScrubOk
    <3>2. Control'
      BY <2>1 DEF ScrubOk, Control, MainSide, AccSide, WriterSide, accVars, wVars, Intact
    <3> QED
      BY <3>1, <3>2
  <2>2. CASE SendDone
    <3>1. ChannelsShaped' /\ Disjoint' /\ Counted'
      BY <1>c, <1>e, <2>2 DEF SendDone, ChannelsShaped, Disjoint, accVars, wVars
    <3>2. Placed'
      BY <1>0, <1>c, <2>2 DEF SendDone, Placed, accVars, wVars, Intact
    <3>3. Control'
      BY <1>c, <2>2 DEF SendDone, Control, MainSide, AccSide, WriterSide, accVars, wVars,
                        Intact, AccGone
    <3> QED
      BY <3>1, <3>2, <3>3 DEF Data
  <2>3. CASE JoinAccumulator
    <3>1. Data'
      BY <1>d, <2>3 DEF JoinAccumulator
    <3>2. Control'
      BY <2>3 DEF JoinAccumulator, Fail, Control, MainSide, AccSide, WriterSide, accVars,
                  wVars, Intact, AccGone
    <3> QED
      BY <3>1, <3>2
  <2>4. CASE JoinWriter
    <3>1. Data'
      BY <1>d, <2>4 DEF JoinWriter
    <3>2. Control'
      BY <2>4 DEF JoinWriter, Fail, Control, MainSide, AccSide, WriterSide, accVars, wVars,
                  Intact
    <3> QED
      BY <3>1, <3>2
  <2>5. CASE Reconcile
    <3>1. Data'
      BY <1>d, <2>5 DEF Reconcile
    <3>2. Control'
      BY <2>5 DEF Reconcile, Fail, Control, MainSide, AccSide, WriterSide, accVars, wVars,
                  Intact
    <3> QED
      BY <3>1, <3>2
  <2>6. ASSUME NEW sc \in ScrubStats, Exit(sc) PROVE Data' /\ Control'
    <3>1. Data'
      BY <1>d, <2>6 DEF Exit
    <3>2. Control'
      BY <2>6 DEF Exit, Control, MainSide, AccSide, WriterSide, accVars, wVars, Intact
    <3> QED
      BY <3>1, <3>2
  <2> QED
    BY <1>2, <2>1, <2>2, <2>3, <2>4, <2>5, <2>6 DEF MainStep
<1>3. CASE ScrubErr
  <2>1. Data'
    BY <1>d, <1>3 DEF ScrubErr
  <2>2. Control'
    BY <1>3 DEF ScrubErr, Control, MainSide, AccSide, WriterSide, accVars, wVars, Intact
  <2> QED
    BY <2>1, <2>2
<1>4. ASSUME AccStep PROVE Data' /\ Control'
  <2>1. CASE AccRecvCandidate
    <3>1. ChannelsShaped' /\ Disjoint' /\ Counted'
      BY <1>c, <1>e, <2>1 DEF AccRecvCandidate, ChannelsShaped, Disjoint, wVars
    <3>2. Placed'
      BY <1>0, <1>c, <2>1 DEF AccRecvCandidate, Placed, mainVars, wVars, Intact
    <3>3. Control'
      BY <1>c, <2>1 DEF AccRecvCandidate, Control, MainSide, AccSide, WriterSide, mainVars,
                        wVars, Intact
    <3> QED
      BY <3>1, <3>2, <3>3 DEF Data
  <2>2. CASE AccRecvDone
    <3>1. ChannelsShaped' /\ Disjoint' /\ Counted'
      BY <1>c, <1>e, <2>2 DEF AccRecvDone, ChannelsShaped, Disjoint, wVars
    <3>2. Placed'
      BY <1>0, <1>c, <2>2 DEF AccRecvDone, ChannelsShaped, Placed, mainVars, wVars, Intact
    <3>3. Control'
      BY <1>c, <2>2 DEF AccRecvDone, Control, MainSide, AccSide, WriterSide, mainVars,
                        wVars, Intact
    <3> QED
      BY <3>1, <3>2, <3>3 DEF Data
  <2>3. CASE AccIdle
    <3>1. Data'
      BY <1>0, <1>e, <2>3 DEF AccIdle, Data, ChannelsShaped, Disjoint, Placed, Intact,
                              mainVars, wVars
    <3>2. Control'
      BY <2>3 DEF AccIdle, Control, MainSide, AccSide, WriterSide, mainVars, wVars, Intact
    <3> QED
      BY <3>1, <3>2
  <2>4. CASE AccHandOver
    <3>1. ChannelsShaped' /\ Disjoint' /\ Counted'
      BY <1>c, <1>e, <2>4 DEF AccHandOver, ChannelsShaped, Disjoint, wVars
    <3>2. WriterGone => ~Intact
      BY <2>4 DEF AccHandOver, WriterGone, Intact, WriterSide
    <3>3. Placed'
      BY <1>0, <1>c, <2>4, <3>2 DEF AccHandOver, ChannelsShaped, Placed, mainVars, wVars,
                                    Intact
    <3>4. Control'
      BY <1>c, <2>4, <3>2 DEF AccHandOver, Control, MainSide, AccSide, WriterSide, mainVars,
                              wVars, Intact
    <3> QED
      BY <3>1, <3>3, <3>4 DEF Data
  <2>5. CASE AccSendDone
    <3>1. ChannelsShaped' /\ Disjoint' /\ Counted'
      BY <1>c, <1>e, <2>5 DEF AccSendDone, ChannelsShaped, Disjoint, wVars
    <3>2. Placed'
      BY <1>0, <1>c, <2>5 DEF AccSendDone, ChannelsShaped, Placed, mainVars, wVars, Intact
    <3>3. Control'
      BY <1>c, <2>5 DEF AccSendDone, Control, MainSide, AccSide, WriterSide, mainVars,
                        wVars, Intact
    <3> QED
      BY <3>1, <3>2, <3>3 DEF Data
  <2> QED
    BY <1>4, <2>1, <2>2, <2>3, <2>4, <2>5 DEF AccStep
<1>5. CASE AccPanic
  <2>1. Data'
    BY <1>e, <1>5 DEF AccPanic, Data, ChannelsShaped, Disjoint, Placed, Intact, mainVars,
                      wVars
  <2>2. Control'
    BY <1>5 DEF AccPanic, Control, MainSide, AccSide, WriterSide, mainVars, wVars, Intact
  <2> QED
    BY <2>1, <2>2
<1>6. ASSUME WriterStep PROVE Data' /\ Control'
  <2>1. CASE WriterRecvBatch
    <3>1. ChannelsShaped' /\ Disjoint' /\ Counted'
      BY <1>c, <1>e, <2>1 DEF WriterRecvBatch, ChannelsShaped, Disjoint, accVars
    <3>2. Placed'
      BY <1>0, <1>c, <2>1 DEF WriterRecvBatch, Placed, mainVars, accVars, Intact
    <3>3. Control'
      BY <1>c, <2>1 DEF WriterRecvBatch, Control, MainSide, AccSide, WriterSide, mainVars,
                        accVars, Intact
    <3> QED
      BY <3>1, <3>2, <3>3 DEF Data
  <2>2. CASE WriterRecvEnd
    <3>1. ChannelsShaped' /\ Disjoint' /\ Counted'
      BY <1>c, <1>e, <2>2 DEF WriterRecvEnd, ChannelsShaped, Disjoint, accVars
    <3>2. Placed'
      BY <1>0, <1>c, <2>2 DEF WriterRecvEnd, ChannelsShaped, Placed, mainVars, accVars,
                              Intact
    <3>3. Control'
      BY <1>c, <2>2 DEF WriterRecvEnd, Control, MainSide, AccSide, WriterSide, mainVars,
                        accVars, Intact, AccGone
    <3> QED
      BY <3>1, <3>2, <3>3 DEF Data
  <2>3. CASE FlushBegin
    <3> DEFINE dups == pending \ work'
    <3>1. /\ work' \in SUBSET pending
          /\ DOMAIN verdict' = DOMAIN verdict \cup dups
          /\ pending' = {} /\ work = {}
      BY <2>3, DedupCount DEF FlushBegin, TypeOK, WriterSide
    <3>2. ChannelsShaped' /\ Disjoint'
      BY <2>3, <3>1 DEF FlushBegin, ChannelsShaped, Disjoint, accVars
    <3>3. Placed'
      BY <1>0, <2>3, <3>1 DEF FlushBegin, Placed, mainVars, accVars, Intact
    <3>4. Control'
      BY <2>3 DEF FlushBegin, Control, MainSide, AccSide, WriterSide, mainVars, accVars,
                  Intact
    <3>5. Counted'
      <4>1. pending \cap work' = work'
        BY <3>1
      <4>2. IsFiniteSet(dups) /\ Cardinality(dups) = Cardinality(pending) - Cardinality(work')
        BY <1>b, <4>1, FS_Difference
      <4>3. DOMAIN verdict \cap dups = {}
        BY DEF Disjoint
      <4>4. Cardinality(DOMAIN verdict') = Cardinality(DOMAIN verdict) + Cardinality(dups)
        BY <1>b, <3>1, <4>2, <4>3, DisjointUnion
      <4>5. /\ stats \in Counter
            /\ stats' = [stats EXCEPT !["deduped"] = stats["deduped"] + Cardinality(dups)]
        BY <2>3, <4>2 DEF FlushBegin, TypeOK
      <4>6. Cardinality(dups) \in Nat
        BY <4>2, FS_CardinalityType
      <4>7. /\ Classified(stats') = Classified(stats) + Cardinality(dups)
            /\ SubTotal(stats') = SubTotal(stats) /\ stats'["mismatch"] = stats["mismatch"]
        BY <4>5, <4>6 DEF Counter, Classified, SubTotal, Buckets, Verdicts, SubBuckets
      <4> QED
        BY <4>4, <4>7 DEF Counted
    <3> QED
      BY <3>2, <3>3, <3>4, <3>5 DEF Data
  <2>4. CASE FreezeTimeout
    <3>1. ChannelsShaped' /\ Counted' /\ Disjoint'
      BY <1>e, <2>4 DEF FreezeTimeout, ChannelsShaped, Disjoint, accVars
    <3>2. pending = {} => Placed'
      BY <1>0, <2>4 DEF FreezeTimeout, Placed, mainVars, accVars, Intact
    <3>3. Control'
      BY <2>4 DEF FreezeTimeout, Control, MainSide, AccSide, WriterSide, mainVars, accVars,
                  Intact
    <3> QED
      BY <2>4, <3>1, <3>2, <3>3 DEF Data, FreezeTimeout, WriterSide
  <2>5. ASSUME NEW v \in Verdicts, Classify(v) PROVE Data' /\ Control'
    <3>1. PICK i \in work : /\ work' = work \ {i}
                            /\ DOMAIN verdict' = DOMAIN verdict \cup {i}
      BY <2>5 DEF Classify
    <3>2. ChannelsShaped' /\ Disjoint'
      BY <2>5, <3>1 DEF Classify, ChannelsShaped, Disjoint, accVars
    <3>3. Placed'
      BY <1>0, <2>5, <3>1 DEF Classify, Placed, mainVars, accVars, Intact
    <3>4. Control'
      BY <2>5 DEF Classify, Control, MainSide, AccSide, WriterSide, mainVars, accVars,
                  Intact
    <3>5. Counted'
      <4>1. i \notin DOMAIN verdict
        BY DEF Disjoint
      <4>2. Cardinality(DOMAIN verdict') = Cardinality(DOMAIN verdict) + 1
        BY <1>b, <3>1, <4>1, FS_AddElement
      <4>3. stats \in Counter /\ stats' = Count(stats, v)
        BY <2>5 DEF Classify, TypeOK
      <4> QED
        BY <4>2, <4>3, CountAdds DEF Counted
    <3> QED
      BY <3>2, <3>3, <3>4, <3>5 DEF Data
  <2>6. ASSUME NEW t \in BOOLEAN, FlushEnd(t) PROVE Data' /\ Control'
    <3>1. Data'
      BY <1>0, <1>e, <2>6 DEF FlushEnd, Data, ChannelsShaped, Disjoint, Placed, Intact,
                              mainVars, accVars
    <3>2. Control'
      BY <2>6 DEF FlushEnd, Control, MainSide, AccSide, WriterSide, mainVars, accVars,
                  Intact
    <3> QED
      BY <3>1, <3>2
  <2> QED
    BY <1>6, <2>1, <2>2, <2>3, <2>4, <2>5, <2>6 DEF WriterStep
<1>7. CASE WriterPanic
  <2>1. Data'
    BY <1>e, <1>7 DEF WriterPanic, Data, ChannelsShaped, Disjoint, Placed, Intact,
                      mainVars, accVars
  <2>2. Control'
    BY <1>7 DEF WriterPanic, Control, MainSide, AccSide, WriterSide, mainVars, accVars,
                Intact
  <2> QED
    BY <2>1, <2>2
<1>8. CASE UNCHANGED vars
  <2>1. Data'
    BY <1>d, <1>8 DEF vars, mainVars
  <2>2. Control'
    BY <1>8 DEF vars, mainVars, accVars, wVars, Control, MainSide, AccSide, WriterSide,
                Intact
  <2> QED
    BY <2>1, <2>2
<1> QED
  BY <1>1, <1>2, <1>3, <1>4, <1>5, <1>6, <1>7, <1>8 DEF Next

(* The inductive invariant: the places a candidate can be in are disjoint, *)
(* together hold every candidate that was sent, and agree with the         *)
(* counters; and each thread's end is what the others take it to be.       *)
THEOREM Invariance == Spec => []IInv
  BY InvInit, InvStep, PTL DEF Spec

(* While no thread has died, the candidates sent are those in flight and   *)
(* those classified: none is lost or counted twice on its way through the  *)
(* channels, batches, deferrals and buckets.                               *)
THEOREM Accounting == Spec => []Conservation
<1>1. IInv => Conservation
  <2> SUFFICES ASSUME IInv, mode # "plain", Intact
               PROVE  sent = Cardinality(chanA.ids) + Cardinality(batch)
                             + Cardinality(chanB.ids) + Cardinality(pending)
                             + Cardinality(work) + Classified(stats)
    BY DEF Conservation
  <2> DEFINE D == DOMAIN verdict
             S1 == chanA.ids
             S2 == S1 \cup batch
             S3 == S2 \cup chanB.ids
             S4 == S3 \cup pending
             S5 == S4 \cup work
             Numbers == /\ Cardinality(S1) \in Nat /\ Cardinality(batch) \in Nat
                        /\ Cardinality(chanB.ids) \in Nat
                        /\ Cardinality(pending) \in Nat
                        /\ Cardinality(work) \in Nat /\ Cardinality(D) \in Nat
  <2>1. /\ S1 \in SUBSET Ids /\ batch \in SUBSET Ids /\ chanB.ids \in SUBSET Ids
        /\ pending \in SUBSET Ids /\ work \in SUBSET Ids /\ D \in SUBSET Ids
    BY DEF IInv, TypeOK, Channel
  <2>2. events \in Seq(Phys)
    BY DEF IInv, TypeOK
  <2>3. /\ IsFiniteSet(S1) /\ IsFiniteSet(batch) /\ IsFiniteSet(chanB.ids)
        /\ IsFiniteSet(pending) /\ IsFiniteSet(work) /\ IsFiniteSet(D)
        /\ Numbers
    BY <2>1, <2>2, IdsFinite
  <2>4. /\ S1 \cap batch = {} /\ S2 \cap chanB.ids = {} /\ S3 \cap pending = {}
        /\ S4 \cap work = {} /\ S5 \cap D = {}
    BY DEF IInv, Disjoint
  <2>5. IsFiniteSet(S2) /\ Cardinality(S2) = Cardinality(S1) + Cardinality(batch)
    BY <2>3, <2>4, DisjointUnion
  <2>6. IsFiniteSet(S3) /\ Cardinality(S3) = Cardinality(S2) + Cardinality(chanB.ids)
    BY <2>3, <2>4, <2>5, DisjointUnion
  <2>7. IsFiniteSet(S4) /\ Cardinality(S4) = Cardinality(S3) + Cardinality(pending)
    BY <2>3, <2>4, <2>6, DisjointUnion
  <2>8. IsFiniteSet(S5) /\ Cardinality(S5) = Cardinality(S4) + Cardinality(work)
    BY <2>3, <2>4, <2>7, DisjointUnion
  <2>9. Cardinality(S5 \cup D) = Cardinality(S5) + Cardinality(D)
    BY <2>3, <2>4, <2>8, DisjointUnion
  <2>10. S5 \cup D = Ids /\ sent = Len(events)
    BY DEF IInv, Placed
  <2>11. Len(events) \in Nat /\ Cardinality(Ids) = Len(events)
    BY <2>2, IdsCount
  <2>12. Cardinality(D) = Classified(stats)
    BY DEF IInv, Counted
  <2> HIDE DEF D, S1, S2, S3, S4, S5
  <2>13. sent = Cardinality(S1) + Cardinality(batch) + Cardinality(chanB.ids)
                + Cardinality(pending) + Cardinality(work) + Cardinality(D)
    BY <2>3, <2>5, <2>6, <2>7, <2>8, <2>9, <2>10, <2>11
  <2> QED
    BY <2>12, <2>13 DEF S1
<1> QED
  BY <1>1, Invariance, PTL

(* When both threads are joined without error nothing is in flight, so the *)
(* verdicts cover every report.                                            *)
LEMMA AllClassified ==
    ASSUME IInv, mode # "plain", accPc = "returned", wPc = "ok"
    PROVE  DOMAIN verdict = Ids /\ sent = Len(events)
<1>1. Intact /\ draining /\ pending = {} /\ work = {}
  BY DEF IInv, WriterSide, Intact
<1>2. batch = {} /\ chanA.ids = {} /\ chanB.ids = {}
  BY <1>1 DEF IInv, WriterSide, AccSide, Empty
<1> QED
  BY <1>1, <1>2 DEF IInv, Placed

(* The two accounting checks of main cannot fail once both threads were    *)
(* joined without error: they guard against deaths only.                   *)
THEOREM Reconciles == Spec => []ReconciliationHolds
<1>1. IInv => ReconciliationHolds
  <2> SUFFICES ASSUME IInv, mainPc = "reconcile" PROVE Reconciled
    BY DEF ReconciliationHolds
  <2>1. mode # "plain" /\ accPc = "returned" /\ wPc = "ok"
    BY DEF IInv, MainSide
  <2>2. DOMAIN verdict = Ids /\ sent = Len(events)
    BY <2>1, AllClassified
  <2>3. Cardinality(Ids) = Len(events)
    BY IdsCount DEF IInv, TypeOK
  <2> QED
    BY <2>2, <2>3 DEF IInv, Counted, Reconciled
<1> QED
  BY <1>1, Invariance, PTL

-----------------------------------------------------------------------------
(* No report is lost: a candidate dropped by deduplication always leaves a *)
(* twin of the same offset behind, which is classified in the end.         *)

(* Every non-empty set of candidates has a first one.                      *)
LEMMA LeastOf ==
    ASSUME NEW S \in SUBSET Nat, S # {}
    PROVE  \E m \in S : \A k \in S : m <= k
<1> DEFINE R == OpToRel(<, Nat)
<1>1. IsWellFoundedOn(R, Nat)
  BY NatLessThanWellFounded, Zenon
<1>2. \A x, y \in Nat : x < y => <<x, y>> \in R
  BY DEF OpToRel
<1> HIDE DEF R
<1>3. PICK m \in S : \A k \in S : ~ (<<k, m>> \in R)
  BY <1>1, WFMin, Zenon
<1>4. \A k \in S : ~(k < m)
  BY <1>2, <1>3
<1> QED
  BY <1>4

(* Deduplication keeps one candidate of every offset it was given.         *)
LEMMA DedupKeepsTwin ==
    ASSUME events \in Seq(Phys), NEW S \in SUBSET Ids, NEW i \in S
    PROVE  \E j \in FirstReports(S) : events[j] = events[i]
<1> DEFINE T == {k \in S : events[k] = events[i]}
<1>1. T \in SUBSET Nat /\ i \in T
  BY IdsCount
<1>2. PICK j \in T : \A k \in T : j <= k
  BY <1>1, LeastOf
<1>3. j \in FirstReports(S)
  BY <1>2 DEF FirstReports
<1> QED
  BY <1>2, <1>3

Survives(j) == j \in work \cup pending \/ (j \in DOMAIN verdict /\ verdict[j] # "deduped")
TwinSurvives ==
    \A i \in DOMAIN verdict : \E j \in Ids : events[j] = events[i] /\ Survives(j)

(* Every step keeps, for each deduplicated candidate, another report of    *)
(* the same sector that is still on its way or classified.                 *)
LEMMA TwinStep == IInv /\ TwinSurvives /\ [Next]_vars => TwinSurvives'
<1> SUFFICES ASSUME IInv, TwinSurvives, [Next]_vars PROVE TwinSurvives'
  OBVIOUS
<1>0. UNCHANGED events => Ids' = Ids
  BY DEF Ids
<1>a. UNCHANGED <<events, work, pending, verdict>> => TwinSurvives'
  BY <1>0 DEF TwinSurvives, Survives
<1>1. ASSUME NEW p \in Phys, OnEvent(p) PROVE TwinSurvives'
  <2>1. Ids \in SUBSET Ids' /\ \A i \in Ids : events'[i] = events[i]
    BY <1>1 DEF OnEvent, Ids, IInv, TypeOK
  <2>2. UNCHANGED <<work, pending, verdict>> /\ DOMAIN verdict \in SUBSET Ids
    BY <1>1 DEF OnEvent, wVars, IInv, TypeOK
  <2> QED
    BY <2>1, <2>2 DEF TwinSurvives, Survives
<1>2. CASE MainStep \/ ScrubErr \/ AccStep \/ AccPanic
  BY <1>2, <1>a DEF MainStep, ScrubOk, SendDone, JoinAccumulator, JoinWriter, Reconcile,
                    Exit, ScrubErr, AccStep, AccRecvCandidate, AccRecvDone, AccIdle,
                    AccHandOver, AccSendDone, AccPanic, mainVars, wVars
<1>3. ASSUME WriterStep PROVE TwinSurvives'
  <2>1. CASE WriterRecvBatch
    BY <1>0, <2>1 DEF WriterRecvBatch, mainVars, TwinSurvives, Survives
  <2>2. CASE WriterRecvEnd
    BY <1>a, <2>2 DEF WriterRecvEnd, mainVars
  <2>3. CASE FlushBegin
    <3> DEFINE dups == pending \ work'
    <3>1. /\ work' = FirstReports(pending) /\ work' \in SUBSET pending /\ work = {}
          /\ pending \in SUBSET Ids /\ events \in Seq(Phys)
          /\ UNCHANGED events /\ Ids' = Ids
      BY <1>0, <2>3, DedupCount DEF FlushBegin, IInv, TypeOK, WriterSide, mainVars
    <3>2. verdict' = [i \in DOMAIN verdict \cup dups |->
                          IF i \in dups THEN "deduped" ELSE verdict[i]]
      BY <2>3 DEF FlushBegin
    <3>3. \A i \in pending : \E j \in work' : events[j] = events[i]
      BY <3>1, DedupKeepsTwin
    <3>4. pending \cap DOMAIN verdict = {}
      BY DEF IInv, Disjoint
    <3>5. \A j \in Ids : Survives(j) => \E k \in Ids : events[k] = events[j] /\ Survives(k)'
      BY <3>1, <3>2, <3>3, <3>4 DEF Survives
    <3>6. \A i \in dups : \E k \in Ids : events[k] = events[i] /\ Survives(k)'
      BY <3>1, <3>3 DEF Survives
    <3>7. \A i \in DOMAIN verdict : \E k \in Ids : events[k] = events[i] /\ Survives(k)'
      BY <3>5 DEF TwinSurvives
    <3> QED
      BY <3>1, <3>2, <3>6, <3>7 DEF TwinSurvives
  <2>4. CASE FreezeTimeout
    BY <1>0, <2>4 DEF FreezeTimeout, mainVars, TwinSurvives, Survives, IInv, WriterSide
  <2>5. ASSUME NEW v \in Verdicts, Classify(v) PROVE TwinSurvives'
    <3>1. PICK i \in work : /\ work' = work \ {i}
                            /\ verdict' = [k \in DOMAIN verdict \cup {i} |->
                                              IF k = i THEN v ELSE verdict[k]]
      BY <2>5 DEF Classify
    <3>2. v # "deduped"
      BY <2>5 DEF Classify, LoopVerdicts, RebuiltVerdicts
    <3>3. UNCHANGED <<events, pending>> /\ Ids' = Ids /\ i \in Ids
      BY <1>0, <2>5 DEF Classify, mainVars, IInv, TypeOK
    <3>4. \A j \in Ids : Survives(j) => Survives(j)'
      BY <3>1, <3>2, <3>3 DEF Survives
    <3>5. Survives(i)'
      BY <3>1, <3>2 DEF Survives
    <3> QED
      BY <3>1, <3>3, <3>4, <3>5 DEF TwinSurvives
  <2>6. ASSUME NEW t \in BOOLEAN, FlushEnd(t) PROVE TwinSurvives'
    BY <1>a, <2>6 DEF FlushEnd, mainVars
  <2> QED
    BY <1>3, <2>1, <2>2, <2>3, <2>4, <2>5, <2>6 DEF WriterStep
<1>4. CASE WriterPanic
  BY <1>4, <1>a DEF WriterPanic, mainVars
<1>5. CASE UNCHANGED vars
  BY <1>5, <1>a DEF vars, mainVars, wVars
<1> QED
  BY <1>1, <1>2, <1>3, <1>4, <1>5 DEF Next

(* A run that does not end in an error has a verdict for every report, and *)
(* for every reported sector one that is not `deduped`.                    *)
THEOREM Completeness == Spec => []NothingLost
<1>1. Init => TwinSurvives
  BY DEF Init, TwinSurvives
<1>2. IInv /\ TwinSurvives => NothingLost
  <2> SUFFICES ASSUME IInv, TwinSurvives, mainPc = "exited", exit # 1, mode # "plain"
               PROVE  /\ DOMAIN verdict = Ids
                      /\ \A i \in Ids : \E j \in Ids :
                            events[j] = events[i] /\ verdict[j] # "deduped"
    BY DEF NothingLost
  <2>1. accPc = "returned" /\ wPc = "ok"
    BY DEF IInv, MainSide
  <2>2. DOMAIN verdict = Ids
    BY <2>1, AllClassified
  <2>3. work = {} /\ pending = {}
    BY <2>1 DEF IInv, WriterSide
  <2> QED
    BY <2>2, <2>3 DEF TwinSurvives, Survives
<1> QED
  BY <1>1, <1>2, Invariance, TwinStep, PTL DEF Spec

(* A candidate once classified keeps its verdict, because what a flush     *)
(* works on is never classified already.                                   *)
THEOREM VerdictsKept == Spec => VerdictFinal
<1> DEFINE Kept == \A i \in DOMAIN verdict : i \in DOMAIN verdict' /\ verdict'[i] = verdict[i]
<1>1. IInv /\ [Next]_vars => [Kept]_vars
  <2> SUFFICES ASSUME IInv, Next PROVE Kept
    OBVIOUS
  <2>1. UNCHANGED verdict => Kept
    OBVIOUS
  <2> HIDE DEF Kept
  <2>2. CASE (\E p \in Phys : OnEvent(p)) \/ MainStep \/ ScrubErr \/ AccStep \/ AccPanic
             \/ WriterPanic
    BY <2>1, <2>2 DEF OnEvent, MainStep, ScrubOk, SendDone, JoinAccumulator, JoinWriter,
          Reconcile, Exit, ScrubErr, AccStep, AccRecvCandidate, AccRecvDone, AccIdle,
          AccHandOver, AccSendDone, AccPanic, WriterPanic, wVars
  <2>3. CASE FlushBegin
    <3>1. verdict' = [i \in DOMAIN verdict \cup (pending \ work') |->
                         IF i \in pending \ work' THEN "deduped" ELSE verdict[i]]
      BY <2>3 DEF FlushBegin
    <3>2. pending \cap DOMAIN verdict = {}
      BY DEF IInv, Disjoint
    <3> QED
      BY <3>1, <3>2 DEF Kept
  <2>4. ASSUME NEW v \in Verdicts, Classify(v) PROVE Kept
    <3>1. PICK i \in work : verdict' = [k \in DOMAIN verdict \cup {i} |->
                                           IF k = i THEN v ELSE verdict[k]]
      BY <2>4 DEF Classify
    <3>2. i \notin DOMAIN verdict
      BY DEF IInv, Disjoint
    <3> QED
      BY <3>1, <3>2 DEF Kept
  <2>5. CASE WriterRecvBatch \/ WriterRecvEnd \/ FreezeTimeout
             \/ \E t \in BOOLEAN : FlushEnd(t)
    BY <2>1, <2>5 DEF WriterRecvBatch, WriterRecvEnd, FreezeTimeout, FlushEnd
  <2> QED
    BY <2>2, <2>3, <2>4, <2>5 DEF Next, WriterStep
<1> QED
  BY <1>1, Invariance, PTL DEF Spec, VerdictFinal

-----------------------------------------------------------------------------
(* The exit code is picked from counters, and is true of the candidates    *)
(* because every verdict given shows in its counter.                       *)
Shown(v) == stats[v] > 0 /\ (v \in SubBuckets => stats["mismatch"] > 0)
Recorded == \A i \in DOMAIN verdict : Shown(verdict[i])

(* Every step keeps the counters and the recorded verdicts in agreement.   *)
LEMMA RecordedStep == IInv /\ Recorded /\ [Next]_vars => Recorded'
<1> SUFFICES ASSUME IInv, Recorded, [Next]_vars PROVE Recorded'
  OBVIOUS
<1>0. stats \in Counter /\ \A i \in DOMAIN verdict : verdict[i] \in Verdicts
  BY DEF IInv, TypeOK
<1>a. UNCHANGED <<stats, verdict>> => Recorded'
  BY DEF Recorded, Shown
<1>b. (\A b \in Buckets : stats'[b] >= stats[b]) => \A v \in Verdicts : Shown(v) => Shown(v)'
  <2> SUFFICES ASSUME \A b \in Buckets : stats'[b] >= stats[b],
                      NEW v \in Verdicts, Shown(v), stats' \in Counter
               PROVE  Shown(v)'
    BY TypeStep DEF IInv, TypeOK
  <2>1. v \in Buckets /\ "mismatch" \in Buckets
    BY DEF Buckets
  <2> QED
    BY <1>0, <2>1 DEF Shown, Counter
<1>1. CASE FlushBegin
  <2> DEFINE dups == pending \ work'
             d == Cardinality(pending) - Cardinality(work')
  <2>1. verdict' = [i \in DOMAIN verdict \cup dups |->
                       IF i \in dups THEN "deduped" ELSE verdict[i]]
    BY <1>1 DEF FlushBegin
  <2>2. pending \in SUBSET Ids /\ work' \in SUBSET pending /\ d \in Nat
    BY <1>1, DedupCount DEF FlushBegin, IInv, TypeOK
  <2>3. stats' = [stats EXCEPT !["deduped"] = stats["deduped"] + d]
    BY <1>1 DEF FlushBegin
  <2>4. dups # {} => d > 0
    <3>1. IsFiniteSet(pending) /\ Cardinality(pending) \in Nat /\ Cardinality(work') \in Nat
      BY <2>2, IdsFinite DEF IInv, TypeOK
    <3>2. Cardinality(pending) = Cardinality(work') => pending = work'
      BY <2>2, <3>1, FS_Subset
    <3> QED
      BY <2>2, <3>1, <3>2
  <2> HIDE DEF d
  <2>5. \A b \in Buckets : stats'[b] >= stats[b]
    BY <1>0, <2>2, <2>3 DEF Counter
  <2>6. dups # {} => Shown("deduped")'
    BY <1>0, <2>2, <2>3, <2>4 DEF Counter, Shown, Buckets, Verdicts, SubBuckets
  <2> QED
    BY <1>0, <1>b, <2>1, <2>5, <2>6 DEF Recorded
<1>2. ASSUME NEW v \in Verdicts, Classify(v) PROVE Recorded'
  <2>1. PICK i \in work : verdict' = [k \in DOMAIN verdict \cup {i} |->
                                         IF k = i THEN v ELSE verdict[k]]
    BY <1>2 DEF Classify
  <2>2. stats' = Count(stats, v)
    BY <1>2 DEF Classify
  <2>3. \A b \in Buckets : stats'[b] >= stats[b]
    BY <1>0, <2>2 DEF Count, Counter
  <2>4. Shown(v)'
    BY <1>0, <2>2 DEF Shown, Count, Counter, Buckets
  <2> QED
    BY <1>0, <1>b, <2>1, <2>3, <2>4 DEF Recorded
<1>3. CASE (\E p \in Phys : OnEvent(p)) \/ MainStep \/ ScrubErr \/ AccStep \/ AccPanic
           \/ WriterPanic
  BY <1>a, <1>3 DEF OnEvent, MainStep, ScrubOk, SendDone, JoinAccumulator, JoinWriter,
        Reconcile, Exit, ScrubErr, AccStep, AccRecvCandidate, AccRecvDone, AccIdle,
        AccHandOver, AccSendDone, AccPanic, WriterPanic, wVars
<1>4. CASE WriterRecvBatch \/ WriterRecvEnd \/ FreezeTimeout
           \/ \E t \in BOOLEAN : FlushEnd(t)
  BY <1>a, <1>4 DEF WriterRecvBatch, WriterRecvEnd, FreezeTimeout, FlushEnd
<1>5. CASE UNCHANGED vars
  BY <1>a, <1>5 DEF vars, wVars
<1> QED
  BY <1>1, <1>2, <1>3, <1>4, <1>5 DEF Next, WriterStep

(* Exit code 0 means that nothing was found wrong, and 4 that every        *)
(* confirmed mismatch was rebuilt and none left unconfirmed, held back or  *)
(* unverified.                                                             *)
THEOREM ExitCodesTruthful == Spec => []ExitTruthful
<1>1. Init => Recorded /\ ExitTruthful
  BY DEF Init, Recorded, ExitTruthful
<1>2. IInv /\ Recorded /\ ExitTruthful /\ [Next]_vars => ExitTruthful'
  <2> SUFFICES ASSUME IInv, Recorded, ExitTruthful, [Next]_vars PROVE ExitTruthful'
    OBVIOUS
  <2>1. ASSUME NEW sc \in ScrubStats, Exit(sc) PROVE ExitTruthful'
    <3>1. /\ scrub' = sc /\ exit' = ExitCode(sc, stats)
          /\ UNCHANGED <<mode, verdict>>
      BY <2>1 DEF Exit, wVars
    <3>2. /\ sc.mismatch \in Nat /\ sc.read_error \in Nat
          /\ sc.header_error \in Nat /\ sc.meta_read_error \in Nat
          /\ \A b \in Buckets : stats[b] \in Nat
      BY DEF ScrubStats, IInv, TypeOK, Counter
    <3>3. exit' = 0 => ~IssuesFound(sc, stats) /\ sc.header_error = 0
      BY <3>1, <3>2 DEF ExitCode
    <3>4. exit' = 4 => NothingLeftOver(sc, stats) /\ mode # "plain"
      BY <3>1, <3>2 DEF ExitCode
    <3>5. ASSUME NEW i \in DOMAIN verdict
          PROVE  /\ exit' = 0 => verdict[i] \in {"stale", "deduped"}
                 /\ exit' = 4 => verdict[i] \in {"stale", "deduped", "recovered"}
      <4>1. verdict[i] \in Verdicts /\ Shown(verdict[i])
        BY DEF IInv, TypeOK, Recorded
      <4>2. exit' = 0 => verdict[i] \notin SubBuckets \cup {"skipped"}
        BY <3>2, <3>3, <4>1 DEF Shown, IssuesFound, Buckets, Verdicts
      <4>3. exit' = 4 => verdict[i] \notin {"failed", "skipped", "not_frozen",
                                            "readback_failed", "not_corrupt"}
        BY <3>2, <3>4, <4>1 DEF Shown, NothingLeftOver, Buckets, Verdicts, SubBuckets
      <4> QED
        BY <4>1, <4>2, <4>3 DEF Verdicts, SubBuckets
    <3>6. exit' = 0 => /\ sc.mismatch = 0 /\ sc.read_error = 0
                       /\ sc.header_error = 0 /\ sc.meta_read_error = 0
      BY <3>2, <3>3 DEF IssuesFound, Buckets
    <3>7. exit' = 4 => mode # "plain" /\ sc.meta_read_error = 0
      BY <3>4 DEF NothingLeftOver
    <3> QED
      BY <3>1, <3>5, <3>6, <3>7 DEF ExitTruthful
  <2>2. CASE mainPc = "exited"
    <3>1. UNCHANGED <<mainPc, exit, scrub, mode, verdict>>
      BY <2>2 DEF Next, OnEvent, MainStep, ScrubOk, SendDone, JoinAccumulator, JoinWriter,
            Reconcile, Exit, ScrubErr, AccStep, AccRecvCandidate, AccRecvDone, AccIdle,
            AccHandOver, AccSendDone, AccPanic, WriterStep, WriterRecvBatch, WriterRecvEnd,
            FlushBegin, FreezeTimeout, Classify, FlushEnd, WriterPanic, Running, vars,
            mainVars, wVars
    <3> QED
      BY <2>2, <3>1 DEF ExitTruthful
  <2>3. CASE mainPc # "exited" /\ ~\E sc \in ScrubStats : Exit(sc)
    <3>1. mainPc' = "exited" => exit' = 1
      BY <2>3 DEF Next, OnEvent, MainStep, ScrubOk, SendDone, JoinAccumulator, JoinWriter,
            Reconcile, Fail, ScrubErr, AccStep, AccRecvCandidate, AccRecvDone, AccIdle,
            AccHandOver, AccSendDone, AccPanic, WriterStep, WriterRecvBatch, WriterRecvEnd,
            FlushBegin, FreezeTimeout, Classify, FlushEnd, WriterPanic, vars, mainVars
    <3> QED
      BY <3>1 DEF ExitTruthful
  <2> QED
    BY <2>1, <2>2, <2>3
<1> QED
  BY <1>1, <1>2, Invariance, RecordedStep, PTL DEF Spec

=============================================================================
