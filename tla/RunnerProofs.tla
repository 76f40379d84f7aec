---------------------------- MODULE RunnerProofs ----------------------------
(***************************************************************************)
(* Proofs about module Runner, for every number of statements, of warm-up  *)
(* and of measured iterations and every set of modes.  TraceInv is         *)
(* inductive: one lemma per action below, each with one step per group of  *)
(* its conjuncts; the theorems at the end draw the properties from it.     *)
(***************************************************************************)
EXTENDS RunnerInv, TLAPS

(* No context is one of the contexts. *)
LEMMA Zero == NoTrace \in Traces
BY LoopAssumption DEF Traces, Total, NoTrace

(* What the operators of module Session do to the fields of a backend. *)
LEMMA Ops ==
    ASSUME NEW s \in Backend(Traces), NEW c \in Traces
    PROVE  /\ Begin(s) \in Backend(Traces) /\ Begin(s).txn = "active" /\ Begin(s).local = s.local
           /\ Begin(s).guc = s.guc /\ Begin(s).hdr = s.hdr
           /\ EndTxn(s) \in Backend(Traces) /\ EndTxn(s).txn = "idle" /\ EndTxn(s).local = NoTrace
           /\ EndTxn(s).guc = s.guc /\ EndTxn(s).hdr = s.hdr
           /\ SetGuc(s, c) \in Backend(Traces) /\ SetGuc(s, c).guc = c /\ SetGuc(s, c).txn = s.txn
           /\ SetGuc(s, c).local = s.local /\ SetGuc(s, c).hdr = s.hdr
           /\ Abort(s) \in Backend(Traces) /\ Abort(s).local = NoTrace
           /\ Abort(s).txn = (IF s.txn = "idle" THEN "idle" ELSE "failed")
           /\ Abort(s).guc = s.guc /\ Abort(s).hdr = s.hdr
           /\ SetLocal(s, c) \in Backend(Traces) /\ SetLocal(s, c).txn = s.txn
           /\ SetLocal(s, c).local = (IF s.txn = "active" THEN c ELSE s.local)
           /\ SetLocal(s, c).guc = s.guc /\ SetLocal(s, c).hdr = s.hdr
BY Zero DEF Begin, EndTxn, SetGuc, Abort, SetLocal, Backend, NoTrace

(* The backends a request that delivers the M frame may leave behind. *)
LEMMA Delivery ==
    ASSUME srv \in Backend(Traces), wbuf \in Traces, NEW s \in AfterSync(Deliver(srv))
    PROVE  /\ s \in Backend(Traces) /\ s.txn = srv.txn /\ s.local = srv.local /\ s.guc = srv.guc
           /\ s.hdr \in {NoTrace, IF wbuf = NoTrace THEN srv.hdr ELSE wbuf}
BY Zero DEF AfterSync, Deliver, Backend, NoTrace

(* The backend that request runs in. *)
LEMMA Delivered ==
    ASSUME srv \in Backend(Traces), wbuf \in Traces
    PROVE  /\ Deliver(srv) \in Backend(Traces) /\ Deliver(srv).txn = srv.txn
           /\ Deliver(srv).local = srv.local /\ Deliver(srv).guc = srv.guc
           /\ Deliver(srv).hdr = (IF wbuf = NoTrace THEN srv.hdr ELSE wbuf)
BY Zero DEF Deliver, Backend, NoTrace

(* A backend nobody has used holds no context. *)
LEMMA FreshType ==
    /\ Fresh \in Backend(Traces)
    /\ Fresh.txn = "idle" /\ Fresh.local = NoTrace /\ Fresh.guc = NoTrace /\ Fresh.hdr = NoTrace
BY Zero DEF Fresh, Backend

(* BEGIN and SET LOCAL, as modes 2a and 2b send them. *)
LEMMA Piped ==
    ASSUME TypeOK
    PROVE  LET s == SetLocal(Begin(srv), it) IN
           /\ s \in Backend(Traces) /\ s.txn = "active" /\ s.local = it
           /\ s.guc = srv.guc /\ s.hdr = srv.hdr
<1>1. srv \in Backend(Traces) /\ it \in Traces
  BY DEF TypeOK, SessionTypeOK, RunOneTypeOK
<1>2. Begin(srv) \in Backend(Traces) /\ Begin(srv).txn = "active"
      /\ Begin(srv).guc = srv.guc /\ Begin(srv).hdr = srv.hdr
  BY <1>1, Zero, Ops
<1> QED
  BY <1>1, <1>2, Zero, Ops

---------------------------------------------------------------------------
(* RunOne: requests written, refused and lost. *)

(* The statement cache keeps its types in every step of RunOne. *)
LEMMA CacheTypeStep == ASSUME CacheTypeOK, RunOneStep PROVE CacheTypeOK'
<1>1. CASE Send \/ Refuse \/ Lose \/ DeallocateOk \/ DeallocateErr
  BY <1>1 DEF CacheTypeOK, Send, Refuse, Lose, DeallocateOk, DeallocateErr
<1>2. CASE BeginOk \/ SetLocalOk \/ CommitOk \/ RollbackOk \/ SetOk \/ ResetOk \/ UnsetOk
  BY <1>2 DEF CacheTypeOK, BeginOk, SetLocalOk, CommitOk, RollbackOk, SetOk, ResetOk, UnsetOk, Ok
<1>3. CASE ExecOk \/ SimpleOk \/ BatchOk
  BY <1>3 DEF CacheTypeOK, ExecOk, SimpleOk, BatchOk, Ok
<1>4. CASE PrepareOk \/ ParseOk
  <2>1. cached' = TRUE /\ evicted' \in BOOLEAN /\ stale' = (stale \/ evicted') /\ UNCHANGED <<cold, due>>
    BY <1>4 DEF PrepareOk, ParseOk, Put, Ok
  <2> QED
    BY <2>1 DEF CacheTypeOK
<1>5. CASE TxnErr \/ SetLocalErr \/ StmtErr \/ CommitErr \/ GucErr \/ SimpleErr \/ ParseErr \/ BatchErr
  <2>1. PICK p : Failed(p)
    BY <1>5 DEF TxnErr, SetLocalErr, StmtErr, CommitErr, GucErr, SimpleErr, ParseErr, BatchErr
  <2>2. cached' \in {cached, FALSE} /\ UNCHANGED <<cold, due, evicted>>
    BY <2>1 DEF Failed
  <2>3. stale' \in BOOLEAN
    BY <2>1 DEF Failed, CacheTypeOK
  <2> QED
    BY <2>2, <2>3 DEF CacheTypeOK
<1> QED
  BY <1>1, <1>2, <1>3, <1>4, <1>5 DEF RunOneStep, Answer

(* Run itself leaves the cache alone. *)
LEMMA CacheTypeKept ==
    ASSUME CacheTypeOK, cached' = cached, stale' = stale, cold' = cold, due' = due, evicted' = evicted
    PROVE  CacheTypeOK'
BY DEF CacheTypeOK

(* A request is written (the calls of every RunOne). *)
LEMMA SendStep == ASSUME TraceInv, Send, UNCHANGED cell PROVE TraceInv'
<1> USE DEF WirePc, StmtPc
<1>a. CacheTypeOK'
  BY CacheTypeStep DEF RunOneStep, TraceInv, TypeOK, RunOneTypeOK
<1>1. /\ srv' \in Backend(Traces) /\ srv'.txn = srv.txn /\ srv'.local = srv.local
     /\ srv'.guc = srv.guc /\ srv'.hdr = srv.hdr
  BY DEF TraceInv, TypeOK, SessionTypeOK, RunOneTypeOK, Send
<1>2. TypeOK'
  BY <1>a, <1>1, Zero DEF TraceInv, TypeOK, SessionTypeOK, RunOneTypeOK, RunPc, cell,
     Send, CanSend
<1>3. ModePc' /\ Wire' /\ Progress'
  BY <1>1, NAssumption DEF TraceInv, TypeOK, RunOneTypeOK, ModePc, Wire, Progress,
     Send, CanSend
<1>4. Txn' /\ Where'
  BY <1>1, Zero DEF TraceInv, ModePc, Wire, Progress, Txn, Where, Send, CanSend
<1>5. Seen'
  BY DEF TraceInv, Seen, P!Legit, Send
<1> QED
  BY <1>2, <1>3, <1>4, <1>5 DEF TraceInv

(* A call fails before it writes. *)
LEMMA RefuseStep == ASSUME TraceInv, Refuse, UNCHANGED cell PROVE TraceInv'
<1> USE DEF WirePc, StmtPc
<1>a. CacheTypeOK'
  BY CacheTypeStep DEF RunOneStep, TraceInv, TypeOK, RunOneTypeOK
<1>1. CASE pc \in {"begin", "commit", "rollback"}
  <2>1. /\ srv' \in Backend(Traces) /\ srv'.txn = "idle" /\ srv'.local = NoTrace
        /\ srv'.guc = NoTrace /\ srv'.hdr = NoTrace
    BY <1>1, FreshType DEF Refuse, Hangup
  <2>2. TypeOK'
    BY <1>a, <1>1, <2>1, Zero DEF TraceInv, TypeOK, SessionTypeOK, RunOneTypeOK, RunPc, Refuse, Hangup, ErrorPc, cell
  <2>3. ModePc' /\ Wire' /\ Progress'
    BY <1>1, <2>1 DEF TraceInv, ModePc, Wire, Progress, Refuse, Hangup, ErrorPc
  <2>4. Txn' /\ Where'
    BY <1>1, <2>1, Zero DEF TraceInv, ModePc, Refuse, Hangup, ErrorPc, Txn, Where
  <2> QED
    BY <2>2, <2>3, <2>4 DEF TraceInv, Seen, P!Legit, Refuse
<1>2. CASE pc \notin {"begin", "commit", "rollback"}
  <2>1. TypeOK'
    BY <1>a, <1>2 DEF TraceInv, TypeOK, SessionTypeOK, RunOneTypeOK, RunPc, Refuse, session, ErrorPc, cell
  <2>2. ModePc' /\ Wire' /\ Progress'
    BY <1>2 DEF TraceInv, ModePc, Wire, Progress, Refuse, session, ErrorPc
  <2>3. Txn'
    BY <1>2 DEF TraceInv, ModePc, Txn, Refuse, session, ErrorPc
  <2>4. Where'
    BY <1>2 DEF TraceInv, ModePc, Where, Refuse, session, ErrorPc, CanSend
  <2> QED
    BY <2>1, <2>2, <2>3, <2>4 DEF TraceInv, Seen, P!Legit, Refuse
<1> QED
  BY <1>1, <1>2

(* A request is lost with its connection. *)
LEMMA LoseStep == ASSUME TraceInv, Lose, UNCHANGED cell PROVE TraceInv'
<1> USE DEF WirePc, StmtPc
<1>a. CacheTypeOK'
  BY CacheTypeStep DEF RunOneStep, TraceInv, TypeOK, RunOneTypeOK
<1>1. /\ srv' \in Backend(Traces) /\ srv'.txn = "idle" /\ srv'.local = NoTrace
     /\ srv'.guc = NoTrace /\ srv'.hdr = NoTrace
  BY FreshType DEF TraceInv, TypeOK, SessionTypeOK, RunOneTypeOK, Lose, Hangup
<1>2. TypeOK'
  BY <1>a, <1>1, Zero DEF TraceInv, TypeOK, SessionTypeOK, RunOneTypeOK, RunPc, cell,
     Lose, Hangup, ErrorPc
<1>3. ModePc' /\ Wire' /\ Progress'
  BY <1>1, NAssumption DEF TraceInv, TypeOK, RunOneTypeOK, ModePc, Wire, Progress,
     Lose, Hangup, ErrorPc
<1>4. Txn' /\ Where'
  BY <1>1, Zero DEF TraceInv, ModePc, Wire, Progress, Txn, Where, Lose, Hangup, ErrorPc
<1>5. Seen'
  BY DEF TraceInv, Seen, P!Legit, Lose, Hangup
<1> QED
  BY <1>2, <1>3, <1>4, <1>5 DEF TraceInv

---------------------------------------------------------------------------
(* RunOne: requests answered with success. *)

(* The cache's statements are deallocated (Conn.Query, Exec and SendBatch,  *)
(* as every mode but 2a calls them).                                       *)
LEMMA DeallocateOkStep == ASSUME TraceInv, DeallocateOk, UNCHANGED cell PROVE TraceInv'
<1> USE DEF WirePc, StmtPc
<1>a. CacheTypeOK'
  BY CacheTypeStep DEF RunOneStep, Answer, TraceInv, TypeOK, RunOneTypeOK
<1>1. /\ srv' \in Backend(Traces) /\ srv'.txn = srv.txn /\ srv'.local = srv.local
      /\ srv'.guc = srv.guc
      /\ srv'.hdr \in {NoTrace, IF wbuf = NoTrace THEN srv.hdr ELSE wbuf}
  BY Delivery DEF TraceInv, TypeOK, SessionTypeOK, DeallocateOk
<1>2. /\ pc \in CallPc /\ inflight /\ inflight' = FALSE /\ wbuf' = NoTrace
      /\ UNCHANGED <<ctx, conn, mode, pc, it, k, err, cached, rtt, seen>>
      /\ UNCHANGED <<observed, errors, before, after, result>>
  BY DEF DeallocateOk, Deallocates, Flush, cell
<1>3. TypeOK'
  <2>1. SessionTypeOK(Traces)'
    BY <1>1, <1>2, Zero DEF TraceInv, TypeOK, SessionTypeOK
  <2>2. RunOneTypeOK(Traces)'
    BY <1>a, <1>2 DEF TraceInv, TypeOK, RunOneTypeOK
  <2> QED
    BY <1>2, <2>1, <2>2 DEF TraceInv, TypeOK
<1>4. ModePc' /\ Wire' /\ Progress'
  BY <1>2 DEF CallPc, TraceInv, ModePc, Wire, Progress
<1>5. Txn' /\ Where'
  BY <1>1, <1>2 DEF CallPc, TraceInv, ModePc, Wire, Txn, Where
<1> QED
  BY <1>2, <1>3, <1>4, <1>5 DEF TraceInv, Seen, P!Legit

(* The deallocation fails, and the call with it. *)
LEMMA DeallocateErrStep == ASSUME TraceInv, DeallocateErr, UNCHANGED cell PROVE TraceInv'
<1> USE DEF WirePc, StmtPc
<1>a. CacheTypeOK'
  BY CacheTypeStep DEF RunOneStep, Answer, TraceInv, TypeOK, RunOneTypeOK
<1>1. /\ pc \in CallPc /\ inflight /\ inflight' = FALSE /\ wbuf' = NoTrace
      /\ pc' = ErrorPc(pc) /\ err' = TRUE
      /\ UNCHANGED <<ctx, mode, it, k, cached, stale, cold, due, evicted, rtt, seen>>
      /\ UNCHANGED <<observed, errors, before, after, result>>
  BY DEF DeallocateErr, Deallocates, Hangup, Flush, cell
<1>2. CASE pc \in {"begin", "commit", "rollback"}
  <2>1. conn' = "closed" /\ srv' = Fresh /\ pc' = "ret" /\ mode = "1a"
    BY <1>1, <1>2 DEF DeallocateErr, Hangup, ErrorPc, TraceInv, ModePc
  <2>2. TypeOK'
    BY <1>a, <1>1, <2>1, Zero, FreshType DEF TraceInv, TypeOK, SessionTypeOK, RunOneTypeOK, RunPc
  <2>3. ModePc' /\ Wire' /\ Progress'
    BY <1>1, <2>1 DEF TraceInv, ModePc, Wire, Progress
  <2>4. Txn' /\ Where'
    BY <1>1, <2>1, FreshType DEF Txn, Where
  <2> QED
    BY <1>1, <2>2, <2>3, <2>4 DEF TraceInv, Seen, P!Legit
<1>3. CASE pc \notin {"begin", "commit", "rollback"}
  <2> DEFINE d == Deliver(srv)
  <2>1. /\ d \in Backend(Traces) /\ d.txn = srv.txn /\ d.local = srv.local
        /\ d.guc = srv.guc /\ d.hdr = (IF wbuf = NoTrace THEN srv.hdr ELSE wbuf)
    BY Delivered DEF TraceInv, TypeOK, SessionTypeOK
  <2> HIDE DEF d
  <2>2. srv' = Abort(d) /\ conn' = conn
    BY <1>3 DEF DeallocateErr, Flush, d
  <2>3. /\ srv' \in Backend(Traces) /\ srv'.local = NoTrace
        /\ srv'.txn = (IF srv.txn = "idle" THEN "idle" ELSE "failed")
        /\ srv'.guc = srv.guc /\ srv'.hdr = (IF wbuf = NoTrace THEN srv.hdr ELSE wbuf)
    BY <2>1, <2>2, Zero, Ops
  <2>4. TypeOK'
    BY <1>a, <1>1, <2>2, <2>3, Zero DEF TraceInv, TypeOK, SessionTypeOK, RunOneTypeOK, RunPc, ErrorPc
  <2>5. ModePc' /\ Wire' /\ Progress'
    BY <1>1, <2>2 DEF CallPc, TraceInv, ModePc, Wire, Progress, ErrorPc
  <2>6. Txn' /\ Where'
    BY <1>1, <1>3, <2>2, <2>3 DEF CallPc, TraceInv, ModePc, Wire, Txn, Where, ErrorPc
  <2> QED
    BY <1>1, <2>4, <2>5, <2>6 DEF TraceInv, Seen, P!Legit
<1> QED
  BY <1>2, <1>3

(* BEGIN is answered (m1a.go:43). *)
LEMMA BeginOkStep == ASSUME TraceInv, BeginOk, UNCHANGED cell PROVE TraceInv'
<1> USE DEF WirePc, StmtPc
<1>a. CacheTypeOK'
  BY CacheTypeStep DEF RunOneStep, Answer, TraceInv, TypeOK, RunOneTypeOK
<1>1. /\ srv' \in Backend(Traces) /\ srv'.txn = "active" /\ srv'.local = srv.local
     /\ srv'.guc = srv.guc /\ srv'.hdr = srv.hdr
  BY Ops DEF TraceInv, TypeOK, SessionTypeOK, RunOneTypeOK, BeginOk, Ok
<1>2. TypeOK'
  BY <1>a, <1>1, Zero DEF TraceInv, TypeOK, SessionTypeOK, RunOneTypeOK, RunPc, cell,
     BeginOk, Ok, Flush
<1>3. ModePc' /\ Wire' /\ Progress'
  BY <1>1, NAssumption DEF TraceInv, TypeOK, RunOneTypeOK, ModePc, Wire, Progress,
     BeginOk, Ok, Flush
<1>4. Txn' /\ Where'
  BY <1>1, Zero DEF TraceInv, ModePc, Wire, Progress, Txn, Where, BeginOk, Ok, Flush
<1>5. Seen'
  BY DEF TraceInv, Seen, P!Legit, BeginOk, Ok
<1> QED
  BY <1>2, <1>3, <1>4, <1>5 DEF TraceInv

(* SET LOCAL is answered (m1a.go:49). *)
LEMMA SetLocalOkStep == ASSUME TraceInv, SetLocalOk, UNCHANGED cell PROVE TraceInv'
<1> USE DEF WirePc, StmtPc
<1>a. CacheTypeOK'
  BY CacheTypeStep DEF RunOneStep, Answer, TraceInv, TypeOK, RunOneTypeOK
<1>1. /\ srv' \in Backend(Traces) /\ srv'.txn = srv.txn
     /\ srv'.local = (IF srv.txn = "active" THEN it ELSE srv.local)
     /\ srv'.guc = srv.guc /\ srv'.hdr = srv.hdr
  BY Ops DEF TraceInv, TypeOK, SessionTypeOK, RunOneTypeOK, SetLocalOk, Ok
<1>2. TypeOK'
  BY <1>a, <1>1, Zero DEF TraceInv, TypeOK, SessionTypeOK, RunOneTypeOK, RunPc, cell,
     SetLocalOk, Ok, Flush, QueryPc
<1>3. ModePc' /\ Wire' /\ Progress'
  BY <1>1, NAssumption DEF TraceInv, TypeOK, RunOneTypeOK, ModePc, Wire, Progress,
     SetLocalOk, Ok, Flush, QueryPc
<1>4. Txn' /\ Where'
  BY <1>1, Zero DEF TraceInv, ModePc, Wire, Progress, Txn, Where, SetLocalOk, Ok, Flush, QueryPc
<1>5. Seen'
  BY DEF TraceInv, Seen, P!Legit, SetLocalOk, Ok
<1> QED
  BY <1>2, <1>3, <1>4, <1>5 DEF TraceInv

(* COMMIT is answered (m1a.go:59). *)
LEMMA CommitOkStep == ASSUME TraceInv, CommitOk, UNCHANGED cell PROVE TraceInv'
<1> USE DEF WirePc, StmtPc
<1>a. CacheTypeOK'
  BY CacheTypeStep DEF RunOneStep, Answer, TraceInv, TypeOK, RunOneTypeOK
<1>1. /\ srv' \in Backend(Traces) /\ srv'.txn = "idle" /\ srv'.local = NoTrace
     /\ srv'.guc = srv.guc /\ srv'.hdr = srv.hdr
  BY Ops DEF TraceInv, TypeOK, SessionTypeOK, RunOneTypeOK, CommitOk, Ok
<1>2. TypeOK'
  BY <1>a, <1>1, Zero DEF TraceInv, TypeOK, SessionTypeOK, RunOneTypeOK, RunPc, cell,
     CommitOk, Ok, Flush
<1>3. ModePc' /\ Wire' /\ Progress'
  BY <1>1, NAssumption DEF TraceInv, TypeOK, RunOneTypeOK, ModePc, Wire, Progress,
     CommitOk, Ok, Flush
<1>4. Txn' /\ Where'
  BY <1>1, Zero DEF TraceInv, ModePc, Wire, Progress, Txn, Where, CommitOk, Ok, Flush
<1>5. Seen'
  BY DEF TraceInv, Seen, P!Legit, CommitOk, Ok
<1> QED
  BY <1>2, <1>3, <1>4, <1>5 DEF TraceInv

(* ROLLBACK is answered (m1a.go:47). *)
LEMMA RollbackOkStep == ASSUME TraceInv, RollbackOk, UNCHANGED cell PROVE TraceInv'
<1> USE DEF WirePc, StmtPc
<1>a. CacheTypeOK'
  BY CacheTypeStep DEF RunOneStep, Answer, TraceInv, TypeOK, RunOneTypeOK
<1>1. /\ srv' \in Backend(Traces) /\ srv'.txn = "idle" /\ srv'.local = NoTrace
     /\ srv'.guc = srv.guc /\ srv'.hdr = srv.hdr
  BY Ops DEF TraceInv, TypeOK, SessionTypeOK, RunOneTypeOK, RollbackOk, Ok
<1>2. TypeOK'
  BY <1>a, <1>1, Zero DEF TraceInv, TypeOK, SessionTypeOK, RunOneTypeOK, RunPc, cell,
     RollbackOk, Ok, Flush
<1>3. ModePc' /\ Wire' /\ Progress'
  BY <1>1, NAssumption DEF TraceInv, TypeOK, RunOneTypeOK, ModePc, Wire, Progress,
     RollbackOk, Ok, Flush
<1>4. Txn' /\ Where'
  BY <1>1, Zero DEF TraceInv, ModePc, Wire, Progress, Txn, Where, RollbackOk, Ok, Flush
<1>5. Seen'
  BY DEF TraceInv, Seen, P!Legit, RollbackOk, Ok
<1> QED
  BY <1>2, <1>3, <1>4, <1>5 DEF TraceInv

(* SET is answered (m1b.go:33). *)
LEMMA SetOkStep == ASSUME TraceInv, SetOk, UNCHANGED cell PROVE TraceInv'
<1> USE DEF WirePc, StmtPc
<1>a. CacheTypeOK'
  BY CacheTypeStep DEF RunOneStep, Answer, TraceInv, TypeOK, RunOneTypeOK
<1>1. /\ srv' \in Backend(Traces) /\ srv'.txn = srv.txn /\ srv'.local = srv.local
     /\ srv'.guc = it /\ srv'.hdr = srv.hdr
  BY Ops DEF TraceInv, TypeOK, SessionTypeOK, RunOneTypeOK, SetOk, Ok
<1>2. TypeOK'
  BY <1>a, <1>1, Zero DEF TraceInv, TypeOK, SessionTypeOK, RunOneTypeOK, RunPc, cell,
     SetOk, Ok, Flush, QueryPc
<1>3. ModePc' /\ Wire' /\ Progress'
  BY <1>1, NAssumption DEF TraceInv, TypeOK, RunOneTypeOK, ModePc, Wire, Progress,
     SetOk, Ok, Flush, QueryPc
<1>4. Txn' /\ Where'
  BY <1>1, Zero DEF TraceInv, ModePc, Wire, Progress, Txn, Where, SetOk, Ok, Flush, QueryPc
<1>5. Seen'
  BY DEF TraceInv, Seen, P!Legit, SetOk, Ok
<1> QED
  BY <1>2, <1>3, <1>4, <1>5 DEF TraceInv

(* RESET is answered (m1b.go:44). *)
LEMMA ResetOkStep == ASSUME TraceInv, ResetOk, UNCHANGED cell PROVE TraceInv'
<1> USE DEF WirePc, StmtPc
<1>a. CacheTypeOK'
  BY CacheTypeStep DEF RunOneStep, Answer, TraceInv, TypeOK, RunOneTypeOK
<1>1. /\ srv' \in Backend(Traces) /\ srv'.txn = srv.txn /\ srv'.local = srv.local
     /\ srv'.guc = NoTrace /\ srv'.hdr = srv.hdr
  BY Ops, Zero DEF TraceInv, TypeOK, SessionTypeOK, RunOneTypeOK, ResetOk, Ok
<1>2. TypeOK'
  BY <1>a, <1>1, Zero DEF TraceInv, TypeOK, SessionTypeOK, RunOneTypeOK, RunPc, cell,
     ResetOk, Ok, Flush
<1>3. ModePc' /\ Wire' /\ Progress'
  BY <1>1, NAssumption DEF TraceInv, TypeOK, RunOneTypeOK, ModePc, Wire, Progress,
     ResetOk, Ok, Flush
<1>4. Txn' /\ Where'
  BY <1>1, Zero DEF TraceInv, ModePc, Wire, Progress, Txn, Where, ResetOk, Ok, Flush
<1>5. Seen'
  BY DEF TraceInv, Seen, P!Legit, ResetOk, Ok
<1> QED
  BY <1>2, <1>3, <1>4, <1>5 DEF TraceInv

(* The best-effort RESET is answered (m1b.go:41). *)
LEMMA UnsetOkStep == ASSUME TraceInv, UnsetOk, UNCHANGED cell PROVE TraceInv'
<1> USE DEF WirePc, StmtPc
<1>a. CacheTypeOK'
  BY CacheTypeStep DEF RunOneStep, Answer, TraceInv, TypeOK, RunOneTypeOK
<1>1. /\ srv' \in Backend(Traces) /\ srv'.txn = srv.txn /\ srv'.local = srv.local
     /\ srv'.guc = NoTrace /\ srv'.hdr = srv.hdr
  BY Ops, Zero DEF TraceInv, TypeOK, SessionTypeOK, RunOneTypeOK, UnsetOk, Ok
<1>2. TypeOK'
  BY <1>a, <1>1, Zero DEF TraceInv, TypeOK, SessionTypeOK, RunOneTypeOK, RunPc, cell,
     UnsetOk, Ok, Flush
<1>3. ModePc' /\ Wire' /\ Progress'
  BY <1>1, NAssumption DEF TraceInv, TypeOK, RunOneTypeOK, ModePc, Wire, Progress,
     UnsetOk, Ok, Flush
<1>4. Txn' /\ Where'
  BY <1>1, Zero DEF TraceInv, ModePc, Wire, Progress, Txn, Where, UnsetOk, Ok, Flush
<1>5. Seen'
  BY DEF TraceInv, Seen, P!Legit, UnsetOk, Ok
<1> QED
  BY <1>2, <1>3, <1>4, <1>5 DEF TraceInv

(* The backend after a statement whose request carried the queued M frame. *)
LEMMA StmtTraceLegit ==
    ASSUME TraceInv, pc = "exec"
    PROVE  StmtTrace(Deliver(srv)) \in P!Legit(mode, it)
<1> USE DEF StmtPc, WirePc
<1> DEFINE d == Deliver(srv)
<1>1. d.local = srv.local /\ d.guc = srv.guc
      /\ d.hdr = (IF wbuf = NoTrace THEN srv.hdr ELSE wbuf)
  BY Delivered DEF TraceInv, TypeOK, SessionTypeOK
<1> HIDE DEF d
<1>2. it > 0 /\ mode \in {"0", "1a", "1b", "3", "4"}
  BY DEF TraceInv, Progress, ModePc
<1>3. StmtTrace(d) \in P!Legit(mode, it)
  BY <1>1, <1>2 DEF TraceInv, Where, StmtTrace, TraceOf, P!Legit, NoTrace
<1> QED
  BY <1>3 DEF d

(* A statement has run (workload.go:62-82). *)
LEMMA ExecOkStep == ASSUME TraceInv, ExecOk, UNCHANGED cell PROVE TraceInv'
<1> USE DEF WirePc, StmtPc
<1>a. CacheTypeOK'
  BY CacheTypeStep DEF RunOneStep, Answer, TraceInv, TypeOK, RunOneTypeOK
<1>1. StmtTrace(Deliver(srv)) \in P!Legit(mode, it)
  BY StmtTraceLegit DEF ExecOk, Ok
<1>2. seen' \subseteq P!Legit(mode, it) /\ UNCHANGED <<mode, it>>
  BY <1>1 DEF ExecOk, Ok, TraceInv, Seen
<1>3. P!Legit(mode, it) \subseteq Traces
  BY Zero DEF P!Legit, TraceInv, TypeOK, RunOneTypeOK, NoTrace
<1>4. /\ srv' \in Backend(Traces) /\ srv'.txn = srv.txn /\ srv'.local = srv.local
      /\ srv'.guc = srv.guc
      /\ srv'.hdr \in {NoTrace, IF wbuf = NoTrace THEN srv.hdr ELSE wbuf}
  BY Delivery DEF TraceInv, TypeOK, SessionTypeOK, ExecOk, Ok
<1>5. /\ pc = "exec" /\ inflight /\ inflight' = FALSE /\ wbuf' = NoTrace
      /\ pc' = (IF AllDone(k + 1) THEN DonePc ELSE QueryPc(cached))
      /\ k' = k + 1
      /\ UNCHANGED <<ctx, conn, err, cached, stale, cold, due, evicted, rtt>>
      /\ UNCHANGED <<observed, errors, before, after, result>>
  BY DEF ExecOk, Ok, Flush, cell
<1>6. k \in 0 .. N /\ k < N /\ cached = TRUE /\ it > 0 /\ err = FALSE /\ conn = "open"
  BY <1>5 DEF TraceInv, TypeOK, RunOneTypeOK, Progress, Wire
<1>7. TypeOK'
  <2>1. k' \in 0 .. N /\ seen' \subseteq Traces
    BY <1>2, <1>3, <1>5, <1>6, NAssumption
  <2>2. pc' \in {"exec", "commit", "reset", "ret"}
    BY <1>5, <1>6 DEF DonePc, QueryPc
  <2>3. SessionTypeOK(Traces)'
    BY <1>4, <1>5, Zero DEF TraceInv, TypeOK, SessionTypeOK
  <2>4. RunOneTypeOK(Traces)'
    BY <1>a, <1>2, <1>5, <2>1 DEF TraceInv, TypeOK, RunOneTypeOK
  <2> QED
    BY <1>5, <2>2, <2>3, <2>4 DEF TraceInv, TypeOK
<1>8. ModePc' /\ Wire' /\ Progress'
  BY <1>2, <1>5, <1>6, NAssumption
  DEF TraceInv, ModePc, Wire, Progress, AllDone, DonePc, QueryPc
<1>9. Txn' /\ Where'
  BY <1>2, <1>4, <1>5 DEF TraceInv, ModePc, Wire, Progress, Txn, Where, AllDone, DonePc, QueryPc
<1> QED
  BY <1>2, <1>7, <1>8, <1>9 DEF TraceInv, Seen

(* A statement is prepared (workload.go:62). *)
LEMMA PrepareOkStep == ASSUME TraceInv, PrepareOk, UNCHANGED cell PROVE TraceInv'
<1> USE DEF WirePc, StmtPc
<1>a. CacheTypeOK'
  BY CacheTypeStep DEF RunOneStep, Answer, TraceInv, TypeOK, RunOneTypeOK
<1>1. /\ srv' \in Backend(Traces) /\ srv'.txn = srv.txn /\ srv'.local = srv.local
      /\ srv'.guc = srv.guc
      /\ srv'.hdr \in {NoTrace, IF wbuf = NoTrace THEN srv.hdr ELSE wbuf}
  BY Delivery DEF TraceInv, TypeOK, SessionTypeOK, PrepareOk, Ok
<1>2. /\ pc = "prepare" /\ inflight /\ inflight' = FALSE /\ wbuf' = NoTrace /\ pc' = "exec"
      /\ cached' = TRUE /\ evicted' \in BOOLEAN /\ stale' = (stale \/ evicted')
      /\ UNCHANGED <<ctx, conn, mode, it, k, err, cold, due, rtt, seen>>
      /\ UNCHANGED <<observed, errors, before, after, result>>
  BY DEF PrepareOk, Put, Ok, Flush, cell
<1>3. TypeOK'
  BY <1>a, <1>1, <1>2, Zero DEF TraceInv, TypeOK, SessionTypeOK, RunOneTypeOK, RunPc
<1>4. ModePc' /\ Wire' /\ Progress'
  BY <1>2, NAssumption DEF TraceInv, TypeOK, RunOneTypeOK, ModePc, Wire, Progress
<1>5. Txn' /\ Where'
  BY <1>1, <1>2 DEF TraceInv, ModePc, Wire, Progress, Txn, Where
<1> QED
  BY <1>2, <1>3, <1>4, <1>5 DEF TraceInv, Seen, P!Legit

(* The simple query of mode 2a is through (m2a.go:56-76). *)
LEMMA SimpleOkStep == ASSUME TraceInv, SimpleOk, UNCHANGED cell PROVE TraceInv'
<1> USE DEF WirePc, StmtPc
<1>a. CacheTypeOK'
  BY CacheTypeStep DEF RunOneStep, Answer, TraceInv, TypeOK, RunOneTypeOK
<1> DEFINE s == SetLocal(Begin(srv), it)
<1>0. /\ s \in Backend(Traces) /\ s.txn = "active" /\ s.local = it
      /\ s.guc = srv.guc /\ s.hdr = srv.hdr
  BY Piped DEF TraceInv
<1>1. StmtTrace(s) = it
  BY <1>0 DEF TraceInv, ModePc, Where, Progress, StmtTrace, TraceOf, NoTrace, SimpleOk, Ok, Failed
<1>2. seen' \subseteq seen \cup {it}
  BY <1>1 DEF SimpleOk
<1> HIDE DEF s
<1>3. /\ srv' \in Backend(Traces) /\ srv'.txn = "idle" /\ srv'.local = NoTrace
     /\ srv'.guc = srv.guc /\ srv'.hdr = srv.hdr
  BY <1>0, Ops DEF s, TraceInv, TypeOK, SessionTypeOK, SimpleOk, Ok, Flush
<1>4. TypeOK'
  <2>1. seen' \subseteq Traces /\ k' \in 0 .. N
    BY <1>2, NAssumption DEF TraceInv, TypeOK, RunOneTypeOK, SimpleOk
  <2>2. inflight' = FALSE /\ wbuf' = NoTrace /\ pc' = "ret"
        /\ UNCHANGED <<ctx, conn, mode, it, err, cached, stale, cold, due, evicted, rtt>>
        /\ UNCHANGED <<observed, errors, before, after, result>>
    BY DEF SimpleOk, Ok, Flush, cell
  <2> QED
    BY <1>a, <1>3, <2>1, <2>2, Zero DEF TraceInv, TypeOK, SessionTypeOK, RunOneTypeOK
<1>5. ModePc' /\ Wire' /\ Progress'
  BY <1>3, NAssumption DEF TraceInv, TypeOK, RunOneTypeOK, ModePc, Wire, Progress, SimpleOk, Ok, Flush
<1>6. Txn' /\ Where'
  BY <1>3, Zero DEF TraceInv, ModePc, Wire, Progress, Txn, Where, SimpleOk, Ok, Flush
<1>7. Seen'
  BY <1>2 DEF TraceInv, ModePc, Seen, P!Legit, SimpleOk, Ok, Failed
<1> QED
  BY <1>4, <1>5, <1>6, <1>7 DEF TraceInv

(* The batch of mode 2b is through (m2b.go:55-88). *)
LEMMA BatchOkStep == ASSUME TraceInv, BatchOk, UNCHANGED cell PROVE TraceInv'
<1> USE DEF WirePc, StmtPc
<1>a. CacheTypeOK'
  BY CacheTypeStep DEF RunOneStep, Answer, TraceInv, TypeOK, RunOneTypeOK
<1> DEFINE s == SetLocal(Begin(srv), it)
<1>0. /\ s \in Backend(Traces) /\ s.txn = "active" /\ s.local = it
      /\ s.guc = srv.guc /\ s.hdr = srv.hdr
  BY Piped DEF TraceInv
<1>1. StmtTrace(s) = it
  BY <1>0 DEF TraceInv, ModePc, Where, Progress, StmtTrace, TraceOf, NoTrace, BatchOk, Ok, Failed
<1>2. seen' \subseteq seen \cup {it}
  BY <1>1 DEF BatchOk
<1> HIDE DEF s
<1>3. /\ srv' \in Backend(Traces) /\ srv'.txn = "idle" /\ srv'.local = NoTrace
     /\ srv'.guc = srv.guc /\ srv'.hdr = srv.hdr
  BY <1>0, Ops DEF s, TraceInv, TypeOK, SessionTypeOK, BatchOk, Ok, Flush
<1>4. TypeOK'
  <2>1. seen' \subseteq Traces /\ k' \in 0 .. N
    BY <1>2, NAssumption DEF TraceInv, TypeOK, RunOneTypeOK, BatchOk
  <2>2. inflight' = FALSE /\ wbuf' = NoTrace /\ pc' = "ret"
        /\ UNCHANGED <<ctx, conn, mode, it, err, cached, stale, cold, due, evicted, rtt>>
        /\ UNCHANGED <<observed, errors, before, after, result>>
    BY DEF BatchOk, Ok, Flush, cell
  <2> QED
    BY <1>a, <1>3, <2>1, <2>2, Zero DEF TraceInv, TypeOK, SessionTypeOK, RunOneTypeOK
<1>5. ModePc' /\ Wire' /\ Progress'
  BY <1>3, NAssumption DEF TraceInv, TypeOK, RunOneTypeOK, ModePc, Wire, Progress, BatchOk, Ok, Flush
<1>6. Txn' /\ Where'
  BY <1>3, Zero DEF TraceInv, ModePc, Wire, Progress, Txn, Where, BatchOk, Ok, Flush
<1>7. Seen'
  BY <1>2 DEF TraceInv, ModePc, Seen, P!Legit, BatchOk, Ok, Failed
<1> QED
  BY <1>4, <1>5, <1>6, <1>7 DEF TraceInv

(* The batch of mode 2b is prepared (m2b.go:55). *)
LEMMA ParseOkStep == ASSUME TraceInv, ParseOk, UNCHANGED cell PROVE TraceInv'
<1> USE DEF WirePc, StmtPc
<1>a. CacheTypeOK'
  BY CacheTypeStep DEF RunOneStep, Answer, TraceInv, TypeOK, RunOneTypeOK
<1>1. /\ srv' \in Backend(Traces) /\ srv'.txn = srv.txn /\ srv'.local = srv.local
     /\ srv'.guc = srv.guc /\ srv'.hdr = srv.hdr
  BY Ops DEF TraceInv, TypeOK, SessionTypeOK, RunOneTypeOK, ParseOk, Put, Ok
<1>2. TypeOK'
  BY <1>a, <1>1, Zero DEF TraceInv, TypeOK, SessionTypeOK, RunOneTypeOK, RunPc, cell,
     ParseOk, Put, Ok, Flush
<1>3. ModePc' /\ Wire' /\ Progress'
  BY <1>1, NAssumption DEF TraceInv, TypeOK, RunOneTypeOK, ModePc, Wire, Progress,
     ParseOk, Put, Ok, Flush
<1>4. Txn' /\ Where'
  BY <1>1, Zero DEF TraceInv, ModePc, Wire, Progress, Txn, Where, ParseOk, Put, Ok, Flush
<1>5. Seen'
  BY DEF TraceInv, Seen, P!Legit, ParseOk, Put, Ok
<1> QED
  BY <1>2, <1>3, <1>4, <1>5 DEF TraceInv

---------------------------------------------------------------------------
(* RunOne: requests answered with an error. *)

(* BEGIN or ROLLBACK fails (m1a.go:43-47). *)
LEMMA TxnErrStep == ASSUME TraceInv, TxnErr, UNCHANGED cell PROVE TraceInv'
<1> USE DEF WirePc, StmtPc
<1>a. CacheTypeOK'
  BY CacheTypeStep DEF RunOneStep, Answer, TraceInv, TypeOK, RunOneTypeOK
<1>1. /\ pc \in {"begin", "rollback"} /\ pc' = "ret" /\ mode = "1a"
      /\ conn' = "closed" /\ inflight' = FALSE /\ srv' = Fresh /\ wbuf' = NoTrace /\ err' = TRUE
      /\ UNCHANGED <<ctx, mode, it, k, rtt, seen>>
      /\ UNCHANGED <<observed, errors, before, after, result>>
  BY DEF TraceInv, ModePc, TxnErr, Failed, Hangup, ErrorPc, cell
<1>2. TypeOK'
  BY <1>a, <1>1, Zero, FreshType DEF TraceInv, TypeOK, SessionTypeOK, RunOneTypeOK, RunPc
<1>3. ModePc' /\ Wire' /\ Progress'
  BY <1>1 DEF TraceInv, ModePc, Wire, Progress
<1>4. Txn' /\ Where'
  BY <1>1, FreshType DEF Txn, Where
<1>5. Seen'
  BY <1>1 DEF TraceInv, Seen, P!Legit
<1> QED
  BY <1>2, <1>3, <1>4, <1>5 DEF TraceInv

(* SET LOCAL fails (m1a.go:49-52). *)
LEMMA SetLocalErrStep == ASSUME TraceInv, SetLocalErr, UNCHANGED cell PROVE TraceInv'
<1> USE DEF WirePc, StmtPc
<1>a. CacheTypeOK'
  BY CacheTypeStep DEF RunOneStep, Answer, TraceInv, TypeOK, RunOneTypeOK
<1>1. /\ srv' \in Backend(Traces) /\ srv'.txn = (IF srv.txn = "idle" THEN "idle" ELSE "failed")
     /\ srv'.local = NoTrace /\ srv'.guc = srv.guc /\ srv'.hdr = srv.hdr
  BY Ops DEF TraceInv, TypeOK, SessionTypeOK, RunOneTypeOK, SetLocalErr
<1>2. TypeOK'
  BY <1>a, <1>1, Zero DEF TraceInv, TypeOK, SessionTypeOK, RunOneTypeOK, RunPc, cell,
     SetLocalErr, Flush, Failed, ErrorPc
<1>3. ModePc' /\ Wire' /\ Progress'
  BY <1>1, NAssumption DEF TraceInv, TypeOK, RunOneTypeOK, ModePc, Wire, Progress,
     SetLocalErr, Flush, Failed, ErrorPc
<1>4. Txn' /\ Where'
  BY <1>1, Zero DEF TraceInv, ModePc, Wire, Progress, Txn, Where, SetLocalErr, Flush, Failed, ErrorPc
<1>5. Seen'
  BY DEF TraceInv, Seen, P!Legit, SetLocalErr, Failed
<1> QED
  BY <1>2, <1>3, <1>4, <1>5 DEF TraceInv

(* A statement fails (workload.go:63-65, 78-80). *)
LEMMA StmtErrStep == ASSUME TraceInv, StmtErr, UNCHANGED cell PROVE TraceInv'
<1> USE DEF WirePc, StmtPc
<1>a. CacheTypeOK'
  BY CacheTypeStep DEF RunOneStep, Answer, TraceInv, TypeOK, RunOneTypeOK
<1> DEFINE d == Deliver(srv)
<1>1. /\ d \in Backend(Traces) /\ d.txn = srv.txn /\ d.local = srv.local
      /\ d.guc = srv.guc /\ d.hdr = (IF wbuf = NoTrace THEN srv.hdr ELSE wbuf)
  BY Delivered DEF TraceInv, TypeOK, SessionTypeOK
<1> HIDE DEF d
<1>2. srv' = Abort(d)
  BY DEF StmtErr, d
<1>3. /\ srv' \in Backend(Traces) /\ srv'.local = NoTrace
      /\ srv'.txn = (IF srv.txn = "idle" THEN "idle" ELSE "failed")
      /\ srv'.guc = srv.guc /\ srv'.hdr = (IF wbuf = NoTrace THEN srv.hdr ELSE wbuf)
  BY <1>1, <1>2, Zero, Ops
<1>4. /\ pc \in StmtPc /\ inflight /\ inflight' = FALSE /\ wbuf' = NoTrace
      /\ pc' = ErrorPc(pc) /\ err' = TRUE /\ cached' \in {cached, FALSE}
      /\ stale' \in BOOLEAN
      /\ UNCHANGED <<ctx, conn, mode, it, k, cold, due, evicted, rtt, seen>>
      /\ UNCHANGED <<observed, errors, before, after, result>>
  BY DEF StmtErr, Failed, Flush, cell, TraceInv, TypeOK, RunOneTypeOK
<1>5. TypeOK'
  BY <1>a, <1>3, <1>4, Zero DEF TraceInv, TypeOK, SessionTypeOK, RunOneTypeOK, RunPc, ErrorPc
<1>6. ModePc' /\ Wire' /\ Progress'
  BY <1>4 DEF TraceInv, ModePc, Wire, Progress, ErrorPc
<1>7. Txn' /\ Where'
  BY <1>3, <1>4 DEF TraceInv, ModePc, Wire, Txn, Where, ErrorPc
<1> QED
  BY <1>4, <1>5, <1>6, <1>7 DEF TraceInv, Seen, P!Legit

(* COMMIT fails (m1a.go:59-61). *)
LEMMA CommitErrStep == ASSUME TraceInv, CommitErr, UNCHANGED cell PROVE TraceInv'
<1> USE DEF WirePc, StmtPc
<1>a. CacheTypeOK'
  BY CacheTypeStep DEF RunOneStep, Answer, TraceInv, TypeOK, RunOneTypeOK
<1>1. /\ srv' \in Backend(Traces) /\ srv'.txn = "idle" /\ srv'.local = NoTrace
     /\ srv'.guc = srv.guc /\ srv'.hdr = srv.hdr
  BY Ops DEF TraceInv, TypeOK, SessionTypeOK, RunOneTypeOK, CommitErr
<1>2. TypeOK'
  BY <1>a, <1>1, Zero DEF TraceInv, TypeOK, SessionTypeOK, RunOneTypeOK, RunPc, cell,
     CommitErr, Flush, Failed, ErrorPc
<1>3. ModePc' /\ Wire' /\ Progress'
  BY <1>1, NAssumption DEF TraceInv, TypeOK, RunOneTypeOK, ModePc, Wire, Progress,
     CommitErr, Flush, Failed, ErrorPc
<1>4. Txn' /\ Where'
  BY <1>1, Zero DEF TraceInv, ModePc, Wire, Progress, Txn, Where, CommitErr, Flush, Failed, ErrorPc
<1>5. Seen'
  BY DEF TraceInv, Seen, P!Legit, CommitErr, Failed
<1> QED
  BY <1>2, <1>3, <1>4, <1>5 DEF TraceInv

(* SET or RESET fails (m1b.go:33-46). *)
LEMMA GucErrStep == ASSUME TraceInv, GucErr, UNCHANGED cell PROVE TraceInv'
<1> USE DEF WirePc, StmtPc
<1>a. CacheTypeOK'
  BY CacheTypeStep DEF RunOneStep, Answer, TraceInv, TypeOK, RunOneTypeOK
<1>1. /\ pc \in {"set", "reset", "unset"} /\ pc' = "ret" /\ mode = "1b"
      /\ inflight' = FALSE /\ wbuf' = NoTrace /\ err' = TRUE
      /\ UNCHANGED <<ctx, conn, srv, mode, it, k, rtt, seen>>
      /\ UNCHANGED <<observed, errors, before, after, result>>
  BY DEF TraceInv, ModePc, GucErr, Failed, Flush, ErrorPc, cell
<1>2. TypeOK'
  BY <1>a, <1>1, Zero DEF TraceInv, TypeOK, SessionTypeOK, RunOneTypeOK, RunPc
<1>3. ModePc' /\ Wire' /\ Progress'
  BY <1>1 DEF TraceInv, ModePc, Wire, Progress
<1>4. Txn' /\ Where' /\ Seen'
  BY <1>1 DEF TraceInv, Txn, Where, Seen, P!Legit
<1> QED
  BY <1>2, <1>3, <1>4 DEF TraceInv

(* The simple query of mode 2a fails (m2a.go:67-73). *)
LEMMA SimpleErrStep == ASSUME TraceInv, SimpleErr, UNCHANGED cell PROVE TraceInv'
<1> USE DEF WirePc, StmtPc
<1>a. CacheTypeOK'
  BY CacheTypeStep DEF RunOneStep, Answer, TraceInv, TypeOK, RunOneTypeOK
<1> DEFINE s == SetLocal(Begin(srv), it)
<1>0. /\ s \in Backend(Traces) /\ s.txn = "active" /\ s.local = it
      /\ s.guc = srv.guc /\ s.hdr = srv.hdr
  BY Piped DEF TraceInv
<1>1. StmtTrace(s) = it
  BY <1>0 DEF TraceInv, ModePc, Where, Progress, StmtTrace, TraceOf, NoTrace, SimpleErr, Ok, Failed
<1>2. seen' \subseteq seen \cup {it}
  BY <1>1 DEF SimpleErr
<1> HIDE DEF s
<1>3. /\ srv' \in Backend(Traces) /\ srv'.txn = "idle" /\ srv'.local = NoTrace
     /\ srv'.guc = srv.guc /\ srv'.hdr = srv.hdr
  BY <1>0, Ops DEF s, TraceInv, TypeOK, SessionTypeOK, SimpleErr, Ok, Flush, Failed, ErrorPc
<1>4. TypeOK'
  BY <1>a, <1>2, <1>3, Zero, NAssumption
  DEF TraceInv, Progress, TypeOK, SessionTypeOK, RunOneTypeOK, RunPc, SimpleErr, Ok, Flush, cell, Failed, ErrorPc
<1>5. ModePc' /\ Wire' /\ Progress'
  BY <1>3, NAssumption DEF TraceInv, TypeOK, RunOneTypeOK, ModePc, Wire, Progress, SimpleErr, Ok, Flush, Failed, ErrorPc
<1>6. Txn' /\ Where'
  BY <1>3, Zero DEF TraceInv, ModePc, Wire, Progress, Txn, Where, SimpleErr, Ok, Flush, Failed, ErrorPc
<1>7. Seen'
  BY <1>2 DEF TraceInv, ModePc, Seen, P!Legit, SimpleErr, Ok, Failed
<1> QED
  BY <1>4, <1>5, <1>6, <1>7 DEF TraceInv

(* Preparing the batch of mode 2b fails (m2b.go:55-62). *)
LEMMA ParseErrStep == ASSUME TraceInv, ParseErr, UNCHANGED cell PROVE TraceInv'
<1> USE DEF WirePc, StmtPc
<1>a. CacheTypeOK'
  BY CacheTypeStep DEF RunOneStep, Answer, TraceInv, TypeOK, RunOneTypeOK
<1>1. /\ srv' \in Backend(Traces) /\ srv'.txn = (IF srv.txn = "idle" THEN "idle" ELSE "failed")
     /\ srv'.local = NoTrace /\ srv'.guc = srv.guc /\ srv'.hdr = srv.hdr
  BY Ops DEF TraceInv, TypeOK, SessionTypeOK, RunOneTypeOK, ParseErr
<1>2. TypeOK'
  BY <1>a, <1>1, Zero DEF TraceInv, TypeOK, SessionTypeOK, RunOneTypeOK, RunPc, cell,
     ParseErr, Flush, Failed, ErrorPc
<1>3. ModePc' /\ Wire' /\ Progress'
  BY <1>1, NAssumption DEF TraceInv, TypeOK, RunOneTypeOK, ModePc, Wire, Progress,
     ParseErr, Flush, Failed, ErrorPc
<1>4. Txn' /\ Where'
  BY <1>1, Zero DEF TraceInv, ModePc, Wire, Progress, Txn, Where, ParseErr, Flush, Failed, ErrorPc
<1>5. Seen'
  BY DEF TraceInv, Seen, P!Legit, ParseErr, Failed
<1> QED
  BY <1>2, <1>3, <1>4, <1>5 DEF TraceInv

(* The batch of mode 2b fails (m2b.go:60-87). *)
LEMMA BatchErrStep == ASSUME TraceInv, BatchErr, UNCHANGED cell PROVE TraceInv'
<1> USE DEF WirePc, StmtPc
<1>a. CacheTypeOK'
  BY CacheTypeStep DEF RunOneStep, Answer, TraceInv, TypeOK, RunOneTypeOK
<1> DEFINE s == SetLocal(Begin(srv), it)
<1>0. /\ s \in Backend(Traces) /\ s.txn = "active" /\ s.local = it
      /\ s.guc = srv.guc /\ s.hdr = srv.hdr
  BY Piped DEF TraceInv
<1>1. StmtTrace(s) = it
  BY <1>0 DEF TraceInv, ModePc, Where, Progress, StmtTrace, TraceOf, NoTrace, BatchErr, Ok, Failed
<1>2. seen' \subseteq seen \cup {it}
  BY <1>1 DEF BatchErr
<1> HIDE DEF s
<1>3. /\ srv' \in Backend(Traces) /\ srv'.txn \in {srv.txn, "idle", "failed"}
     /\ srv'.local \in {srv.local, NoTrace} /\ srv'.guc = srv.guc /\ srv'.hdr = srv.hdr
  BY <1>0, Ops DEF s, TraceInv, TypeOK, SessionTypeOK, BatchErr, Ok, Flush, Failed, ErrorPc
<1>4. TypeOK'
  BY <1>a, <1>2, <1>3, Zero, NAssumption
  DEF TraceInv, Progress, TypeOK, SessionTypeOK, RunOneTypeOK, RunPc, BatchErr, Ok, Flush, cell, Failed, ErrorPc
<1>5. ModePc' /\ Wire' /\ Progress'
  BY <1>3, NAssumption DEF TraceInv, TypeOK, RunOneTypeOK, ModePc, Wire, Progress, BatchErr, Ok, Flush, Failed, ErrorPc
<1>6. Txn' /\ Where'
  BY <1>3, Zero DEF TraceInv, ModePc, Wire, Progress, Txn, Where, BatchErr, Ok, Flush, Failed, ErrorPc
<1>7. Seen'
  BY <1>2 DEF TraceInv, ModePc, Seen, P!Legit, BatchErr, Ok, Failed
<1> QED
  BY <1>4, <1>5, <1>6, <1>7 DEF TraceInv

(* Whatever the backend answers, the invariant holds. *)
LEMMA AnswerStep == ASSUME TraceInv, Answer, UNCHANGED cell PROVE TraceInv'
BY DeallocateOkStep, DeallocateErrStep, BeginOkStep, SetLocalOkStep, CommitOkStep, RollbackOkStep, SetOkStep, ResetOkStep, UnsetOkStep,
   PrepareOkStep, ExecOkStep, SimpleOkStep, ParseOkStep, BatchOkStep, TxnErrStep, SetLocalErrStep,
   StmtErrStep, CommitErrStep, GucErrStep, SimpleErrStep, ParseErrStep, BatchErrStep DEF Answer

---------------------------------------------------------------------------
(* Run. *)

(* An iteration starts (runner.go:173-191). *)
LEMMA StartIterationStep == ASSUME TraceInv, StartIteration PROVE TraceInv'
<1> USE DEF WirePc, StmtPc
<1>1. /\ pc = "loop" /\ ctx = "live" /\ it < Total
      /\ it' = it + 1 /\ k' = 0 /\ err' = FALSE /\ cached' = (cached /\ mode # "3")
      /\ cold' = ~cached' /\ stale' = stale /\ due' = stale /\ evicted' = FALSE /\ rtt' = 0 /\ seen' = {} /\ pc' = FirstPc(cached /\ mode # "3")
      /\ wbuf' = (IF mode = "4" THEN it + 1 ELSE wbuf)
      /\ UNCHANGED <<ctx, conn, inflight, srv, mode>>
      /\ UNCHANGED <<observed, errors, before, after, result>>
  BY DEF TraceInv, TypeOK, RunOneTypeOK, StartIteration, Enter, More, cell
<1>2. it + 1 \in Traces /\ it + 1 > 0
  BY <1>1, LoopAssumption DEF TraceInv, TypeOK, RunOneTypeOK, Traces, Total
<1>3. pc' \in {"begin", "set", "simple", "parse", "prepare", "exec"}
  BY <1>1 DEF FirstPc, QueryPc
<1>4. TypeOK'
  <2>1. it' \in Traces /\ wbuf' \in Traces /\ k' \in 0 .. N /\ rtt' \in Nat /\ seen' \subseteq Traces
    BY <1>1, <1>2, NAssumption DEF TraceInv, TypeOK, SessionTypeOK
  <2>2. CacheTypeOK'
    BY <1>1 DEF TraceInv, TypeOK, RunOneTypeOK, CacheTypeOK
  <2> QED
    BY <1>1, <1>3, <2>1, <2>2 DEF TraceInv, TypeOK, SessionTypeOK, RunOneTypeOK, RunPc
<1>5. ModePc'
  BY <1>1, RunModesAssumption
  DEF TraceInv, TypeOK, RunOneTypeOK, AllModes, ModePc, FirstPc, QueryPc
<1>6. Wire' /\ Progress'
  <2>1. pc' = "exec" => cached'
    BY <1>1 DEF FirstPc, QueryPc
  <2> QED
    BY <1>1, <1>2, <1>3, <2>1, NAssumption DEF TraceInv, Wire, Progress
<1>7. Txn' /\ Where'
  BY <1>1, <1>3, <1>5 DEF TraceInv, ModePc, Txn, Where, FirstPc, QueryPc
<1> QED
  BY <1>1, <1>4, <1>5, <1>6, <1>7 DEF TraceInv, Seen

(* The connection is made (runner.go:100). *)
LEMMA ConnectStep == ASSUME TraceInv, Connect PROVE TraceInv'
<1> USE DEF WirePc, StmtPc
<1>1. TypeOK'
  BY CacheTypeKept DEF TraceInv, TypeOK, SessionTypeOK, RunOneTypeOK, RunPc, Connect, call, cell
<1>2. ModePc' /\ Wire' /\ Progress' /\ Seen'
  BY DEF TraceInv, ModePc, Wire, Progress, Seen, Connect, call, P!Legit
<1>3. srv' = Fresh
  BY DEF TraceInv, Wire, Connect
<1>4. Txn' /\ Where'
  BY <1>3, FreshType DEF TraceInv, Wire, Txn, Where, Connect, call
<1> QED
  BY <1>1, <1>2, <1>4 DEF TraceInv

(* The connection is closed (runner.go:104). *)
LEMMA CloseStep == ASSUME TraceInv, Close PROVE TraceInv'
<1> USE DEF WirePc, StmtPc
<1>1. TypeOK'
  BY Zero, FreshType, CacheTypeKept
  DEF TraceInv, TypeOK, SessionTypeOK, RunOneTypeOK, RunPc, Close, Hangup, call, cell
<1>2. ModePc' /\ Wire' /\ Progress' /\ Seen'
  BY DEF TraceInv, ModePc, Wire, Progress, Seen, Close, Hangup, call, P!Legit
<1>3. Txn' /\ Where'
  BY FreshType DEF Txn, Where, Close, Hangup
<1> QED
  BY <1>1, <1>2, <1>3 DEF TraceInv

(* The connection fails (runner.go:101-103). *)
LEMMA ConnectFailStep == ASSUME TraceInv, ConnectFail PROVE TraceInv'
BY FreshType, Zero, CacheTypeKept
DEF ConnectFail, session, TraceInv, WirePc, StmtPc, TypeOK, SessionTypeOK, RunOneTypeOK, RunPc, ModePc, Wire, Progress, Txn, Where,
    Seen, P!Legit, Traces, Total, cell, call

(* The workload is set up (runner.go:106). *)
LEMMA WorkloadSetupStep == ASSUME TraceInv, WorkloadSetup PROVE TraceInv'
BY FreshType, Zero, CacheTypeKept
DEF WorkloadSetup, session, TraceInv, WirePc, StmtPc, TypeOK, SessionTypeOK, RunOneTypeOK, RunPc, ModePc, Wire, Progress, Txn, Where,
    Seen, P!Legit, Traces, Total, cell, call

(* It is not (runner.go:106-108). *)
LEMMA WorkloadSetupFailStep == ASSUME TraceInv, WorkloadSetupFail PROVE TraceInv'
BY FreshType, Zero, CacheTypeKept
DEF WorkloadSetupFail, Broken, TraceInv, WirePc, StmtPc, TypeOK, SessionTypeOK, RunOneTypeOK, RunPc, ModePc, Wire, Progress, Txn, Where,
    Seen, P!Legit, Traces, Total, cell, call

(* The mode is set up or refuses (runner.go:109-111). *)
LEMMA ModeSetupStep == ASSUME TraceInv, ModeSetup PROVE TraceInv'
BY FreshType, Zero, CacheTypeKept
DEF ModeSetup, session, TraceInv, WirePc, StmtPc, TypeOK, SessionTypeOK, RunOneTypeOK, RunPc, ModePc, Wire, Progress, Txn, Where,
    Seen, P!Legit, Traces, Total, cell, call

(* The first snapshot is taken (runner.go:123). *)
LEMMA TakeBeforeStep == ASSUME TraceInv, TakeBefore PROVE TraceInv'
BY FreshType, Zero, CacheTypeKept
DEF TakeBefore, session, TraceInv, WirePc, StmtPc, TypeOK, SessionTypeOK, RunOneTypeOK, RunPc, ModePc, Wire, Progress, Txn, Where,
    Seen, P!Legit, Traces, Total, cell, call

(* It fails and is zero (runner.go:123). *)
LEMMA TakeBeforeFailStep == ASSUME TraceInv, TakeBeforeFail PROVE TraceInv'
<1>1. CacheTypeOK'
  BY DEF TakeBeforeFail, TraceInv, TypeOK, RunOneTypeOK, CacheTypeOK
<1> QED
  BY <1>1, FreshType, Zero
  DEF TakeBeforeFail, Broken, TraceInv, WirePc, StmtPc, TypeOK, SessionTypeOK, RunOneTypeOK, RunPc, ModePc,
      Wire, Progress, Txn, Where, Seen, P!Legit, Traces, Total

(* A loop sees the context done (runner.go:131, 141). *)
LEMMA LoopCancelledStep == ASSUME TraceInv, LoopCancelled PROVE TraceInv'
BY FreshType, Zero, CacheTypeKept
DEF LoopCancelled, session, TraceInv, WirePc, StmtPc, TypeOK, SessionTypeOK, RunOneTypeOK, RunPc, ModePc, Wire, Progress, Txn, Where,
    Seen, P!Legit, Traces, Total, cell, call

(* A warm-up iteration failed (runner.go:134-136). *)
LEMMA WarmupFailedStep == ASSUME TraceInv, WarmupFailed PROVE TraceInv'
BY FreshType, Zero, CacheTypeKept
DEF WarmupFailed, session, TraceInv, WirePc, StmtPc, TypeOK, SessionTypeOK, RunOneTypeOK, RunPc, ModePc, Wire, Progress, Txn, Where,
    Seen, P!Legit, Traces, Total, cell, call

(* A measured iteration failed (runner.go:149-152). *)
LEMMA ObserveErrorStep == ASSUME TraceInv, ObserveError PROVE TraceInv'
BY FreshType, Zero, CacheTypeKept
DEF ObserveError, session, TraceInv, WirePc, StmtPc, TypeOK, SessionTypeOK, RunOneTypeOK, RunPc, ModePc, Wire, Progress, Txn, Where,
    Seen, P!Legit, Traces, Total, cell, call

(* An iteration succeeded (runner.go:153). *)
LEMMA ObserveStep == ASSUME TraceInv, Observe PROVE TraceInv'
BY FreshType, Zero, CacheTypeKept
DEF Observe, session, TraceInv, WirePc, StmtPc, TypeOK, SessionTypeOK, RunOneTypeOK, RunPc, ModePc, Wire, Progress, Txn, Where,
    Seen, P!Legit, Traces, Total, cell, call

(* The loops are through (runner.go:155). *)
LEMMA LoopDoneStep == ASSUME TraceInv, LoopDone PROVE TraceInv'
BY FreshType, Zero, CacheTypeKept
DEF LoopDone, session, TraceInv, WirePc, StmtPc, TypeOK, SessionTypeOK, RunOneTypeOK, RunPc, ModePc, Wire, Progress, Txn, Where,
    Seen, P!Legit, Traces, Total, cell, call

(* The second snapshot is taken (runner.go:158). *)
LEMMA TakeAfterStep == ASSUME TraceInv, TakeAfter PROVE TraceInv'
BY FreshType, Zero, CacheTypeKept
DEF TakeAfter, session, TraceInv, WirePc, StmtPc, TypeOK, SessionTypeOK, RunOneTypeOK, RunPc, ModePc, Wire, Progress, Txn, Where,
    Seen, P!Legit, Traces, Total, cell, call

(* It fails and is zero (runner.go:158). *)
LEMMA TakeAfterFailStep == ASSUME TraceInv, TakeAfterFail PROVE TraceInv'
BY FreshType, Zero, CacheTypeKept
DEF TakeAfterFail, Broken, TraceInv, WirePc, StmtPc, TypeOK, SessionTypeOK, RunOneTypeOK, RunPc, ModePc, Wire, Progress, Txn, Where,
    Seen, P!Legit, Traces, Total, cell, call

(* The context is done (main.go:40). *)
LEMMA CancelStep == ASSUME TraceInv, Cancel PROVE TraceInv'
BY FreshType, Zero, CacheTypeKept
DEF Cancel, CtxDone, TraceInv, WirePc, StmtPc, TypeOK, SessionTypeOK, RunOneTypeOK, RunPc, ModePc, Wire, Progress, Txn, Where,
    Seen, P!Legit, Traces, Total, cell, call

(* A stuttering step. *)
LEMMA UnchangedStep == ASSUME TraceInv, UNCHANGED vars PROVE TraceInv'
BY CacheTypeKept DEF vars, session, call, cell, TraceInv, TypeOK, SessionTypeOK, RunOneTypeOK, ModePc, Wire, Progress,
   Txn, Where, Seen, P!Legit

(* Every step of the specification preserves the invariant. *)
LEMMA TraceInvStep == TraceInv /\ [Next]_vars => TraceInv'
<1> SUFFICES ASSUME TraceInv, [Next]_vars PROVE TraceInv'
  OBVIOUS
<1>1. CASE Next
  <2>1. CASE RunOne
    BY <2>1, SendStep, RefuseStep, LoseStep, AnswerStep DEF RunOne, RunOneStep
  <2>2. CASE Connect \/ ConnectFail \/ WorkloadSetup \/ WorkloadSetupFail \/ ModeSetup
    BY <2>2, ConnectStep, ConnectFailStep, WorkloadSetupStep, WorkloadSetupFailStep, ModeSetupStep
  <2>3. CASE TakeBefore \/ TakeBeforeFail \/ TakeAfter \/ TakeAfterFail
    BY <2>3, TakeBeforeStep, TakeBeforeFailStep, TakeAfterStep, TakeAfterFailStep
  <2>4. CASE LoopCancelled \/ StartIteration \/ LoopDone
    BY <2>4, LoopCancelledStep, StartIterationStep, LoopDoneStep
  <2>5. CASE WarmupFailed \/ ObserveError \/ Observe
    BY <2>5, WarmupFailedStep, ObserveErrorStep, ObserveStep
  <2>6. CASE Close \/ Cancel
    BY <2>6, CloseStep, CancelStep
  <2>7. CASE Returned
    BY <2>7, UnchangedStep DEF Returned
  <2> QED
    BY <1>1, <2>1, <2>2, <2>3, <2>4, <2>5, <2>6, <2>7 DEF Next
<1>2. CASE UNCHANGED vars
  BY <1>2, UnchangedStep
<1> QED
  BY <1>1, <1>2

(* The invariant holds when Run is called. *)
LEMMA InitTraceInv == Init => TraceInv
<1> SUFFICES ASSUME Init PROVE TraceInv
  OBVIOUS
<1> USE DEF WirePc, StmtPc
<1>1. TypeOK
  <2>1. 0 \in Traces /\ 0 \in 0 .. N /\ 0 \in Nat
    BY Zero, NAssumption DEF NoTrace
  <2>2. SessionTypeOK(Traces)
    BY Zero, FreshType DEF Init, SessionTypeOK
  <2>3. RunOneTypeOK(Traces)
    BY <2>1 DEF Init, RunOneTypeOK, CacheTypeOK
  <2> QED
    BY <2>1, <2>2, <2>3 DEF Init, TypeOK, RunPc
<1>2. ModePc /\ Wire /\ Progress /\ Seen
  BY DEF Init, ModePc, Wire, Progress, Seen
<1>3. Txn /\ Where
  BY FreshType DEF Init, Txn, Where
<1> QED
  BY <1>1, <1>2, <1>3 DEF TraceInv

(* Where a transaction and a trace context can be, at every point of Run,  *)
(* holds in every reachable state (the RunOne of every mode).              *)
THEOREM TraceInvariant == Safety => []TraceInv
BY InitTraceInv, TraceInvStep, PTL DEF Safety

---------------------------------------------------------------------------
(* The properties of the runs, for every value of the constants. *)

(* Type correctness; no iteration beyond Warmup + Iterations is started    *)
(* (runner.go:130, 140).                                                   *)
THEOREM TypeCorrect == Spec => []TypeOK
<1>1. TraceInv => TypeOK
  BY DEF TraceInv
<1> QED
  BY <1>1, TraceInvariant, PTL DEF Spec

(* No statement of an iteration is attributed to the context of another,   *)
(* whatever an earlier iteration left behind (the RunOne of every mode).   *)
THEOREM NoStaleTraceCorrect == Spec => []NoStaleTrace
<1>1. TraceInv => NoStaleTrace
  BY StmtTraceLegit DEF TraceInv, Seen, NoStaleTrace
<1> QED
  BY <1>1, TraceInvariant, PTL DEF Spec

(* Between iterations an open connection is outside any transaction, with  *)
(* no SET LOCAL value and no queued M frame, except in mode 2b.            *)
THEOREM CleanSessionCorrect == Spec => []CleanSession
<1>1. TraceInv => CleanSession
  BY DEF TraceInv, Txn, Where, CleanSession, StmtPc
<1> QED
  BY <1>1, TraceInvariant, PTL DEF Spec

(* An iteration that succeeds ran all its statements and left nothing of   *)
(* its trace context in the session's GUCs.                                *)
THEOREM SuccessLeavesCleanCorrect == Spec => []SuccessLeavesClean
<1>1. TraceInv => SuccessLeavesClean
  BY DEF TraceInv, Progress, Txn, Where, SuccessLeavesClean, StmtPc
<1> QED
  BY <1>1, TraceInvariant, PTL DEF Spec

(* The session GUC of mode 1b outlives RunOne on an open connection only   *)
(* when a SET or a RESET itself failed (m1b.go:38-46).                     *)
THEOREM LeakOnlyFromResetCorrect == Spec => LeakOnlyFromReset
<1> DEFINE NoLeak == pc # "ret" /\ pc' = "ret" /\ conn' = "open" /\ srv'.guc # NoTrace
                        => pc \in {"set", "reset", "unset"}
<1>1. TraceInv /\ TraceInv' /\ [Next]_vars => [NoLeak]_vars
  <2> SUFFICES ASSUME TraceInv, TraceInv', Next, pc # "ret", pc' = "ret", srv'.guc # NoTrace
               PROVE  pc \in {"set", "reset", "unset"}
    BY DEF vars
  <2>1. mode' = "1b"
    BY DEF TraceInv, Where
  <2>2. RunOneStep /\ pc' = "ret"
    BY DEF Next, Connect, ConnectFail, WorkloadSetup, WorkloadSetupFail, ModeSetup, TakeBefore,
       TakeBeforeFail, LoopCancelled, StartIteration, Enter, FirstPc, QueryPc, RunOne,
       WarmupFailed, ObserveError, Observe, LoopDone, TakeAfter, TakeAfterFail, Close,
       Cancel, Returned, vars
  <2>3. mode = "1b" /\ pc \in WirePc
    BY <2>1, <2>2 DEF RunOneStep, Send, Refuse, Lose, Answer, DeallocateOk, DeallocateErr,
       Deallocates, CallPc, BeginOk, SetLocalOk, CommitOk, RollbackOk,
       SetOk, ResetOk, UnsetOk, PrepareOk, ExecOk, SimpleOk, ParseOk, BatchOk, TxnErr, SetLocalErr,
       StmtErr, CommitErr, GucErr, SimpleErr, ParseErr, BatchErr, Ok, Failed, WirePc, StmtPc
  <2>4. pc \notin StmtPc
    BY <2>2, <2>3 DEF RunOneStep, Send, Refuse, Lose, Answer, DeallocateOk, DeallocateErr,
       Deallocates, CallPc, BeginOk, SetLocalOk, CommitOk, RollbackOk,
       SetOk, ResetOk, UnsetOk, PrepareOk, ExecOk, SimpleOk, ParseOk, BatchOk, TxnErr, SetLocalErr,
       StmtErr, CommitErr, GucErr, SimpleErr, ParseErr, BatchErr, Ok, Failed, StmtPc, ErrorPc, DonePc,
       AllDone, QueryPc
  <2> QED
    BY <2>3, <2>4 DEF TraceInv, ModePc, WirePc
<1> QED
  BY <1>1, TraceInvariant, PTL DEF Spec, Safety, LeakOnlyFromReset

---------------------------------------------------------------------------
(* Accounting *)

(* Whatever a request brings, RunOne goes on or returns. *)
LEMMA RunOneShape ==
    ASSUME TraceInv, RunOneStep
    PROVE  /\ pc \in WirePc /\ pc' \in WirePc \cup {"ret"}
           /\ UNCHANGED <<ctx, mode, it>>
<1> USE DEF WirePc, StmtPc
<1>1. CASE Send \/ Refuse \/ Lose
  BY <1>1 DEF Send, Refuse, Lose, Hangup, session, ErrorPc
<1>2. CASE Answer
  BY <1>2 DEF Answer, DeallocateOk, DeallocateErr, Deallocates, CallPc, BeginOk, SetLocalOk,
     CommitOk, RollbackOk, SetOk, ResetOk, UnsetOk, PrepareOk, ExecOk, SimpleOk, ParseOk, BatchOk, TxnErr, SetLocalErr, StmtErr, CommitErr, GucErr, SimpleErr,
     ParseErr, BatchErr, Ok, Failed, Flush, Hangup, QueryPc, DonePc, ErrorPc
<1> QED
  BY <1>1, <1>2 DEF RunOneStep

(* Every step preserves what is counted and what Run returns (runner.go:130-164). *)
LEMMA AccountStep == TraceInv /\ AccountInv /\ [Next]_vars => AccountInv'
<1> SUFFICES ASSUME TraceInv, AccountInv, [Next]_vars PROVE AccountInv'
  OBVIOUS
<1> USE LoopAssumption DEF WirePc, StmtPc, Measured
<1>1. it \in Nat /\ it <= Total /\ observed \in Nat /\ errors \in Nat
  BY DEF TraceInv, TypeOK, RunOneTypeOK, Traces, Total
<1>2. CASE RunOne
  BY <1>2, RunOneShape DEF RunOne, cell, AccountInv, Accounting, Counting
<1>3. CASE Connect \/ ConnectFail \/ WorkloadSetup \/ WorkloadSetupFail \/ ModeSetup
           \/ TakeBefore \/ TakeBeforeFail
  BY <1>1, <1>3 DEF Connect, ConnectFail, WorkloadSetup, WorkloadSetupFail, ModeSetup, TakeBefore,
     TakeBeforeFail, Broken, session, call, cell, AccountInv, Accounting, Counting
<1>4. CASE LoopCancelled \/ LoopDone \/ StartIteration
  <2>1. CASE LoopCancelled \/ LoopDone
    BY <1>1, <2>1 DEF LoopCancelled, LoopDone, More, Total, session, call, cell, AccountInv, Accounting,
       Counting
  <2>2. CASE StartIteration
    <3>1. /\ pc = "loop" /\ it' = it + 1 /\ pc' \in WirePc
          /\ UNCHANGED <<ctx, observed, errors, before, after, result>>
      BY <2>2 DEF StartIteration, Enter, FirstPc, QueryPc, cell
    <3> QED
      BY <1>1, <3>1 DEF AccountInv, Accounting, Counting
  <2> QED
    BY <1>4, <2>1, <2>2
<1>5. CASE WarmupFailed \/ ObserveError \/ Observe
  BY <1>1, <1>5 DEF WarmupFailed, ObserveError, Observe, session, call, AccountInv, Accounting, Counting
<1>6. CASE TakeAfter \/ TakeAfterFail
  BY <1>1, <1>6 DEF TakeAfter, TakeAfterFail, Broken, Total, session, call, AccountInv, Accounting,
     Counting
<1>7. CASE Close \/ Cancel
  BY <1>7 DEF Close, Cancel, Hangup, CtxDone, call, cell, AccountInv, Accounting, Counting
<1>8. CASE UNCHANGED vars
  BY <1>8 DEF vars, session, call, cell, AccountInv, Accounting, Counting
<1> QED
  BY <1>2, <1>3, <1>4, <1>5, <1>6, <1>7, <1>8 DEF Next, Returned

(* Every measured iteration is counted exactly once, and what Run returns  *)
(* tells how many were measured (runner.go:130-164).                       *)
THEOREM AccountingCorrect == Spec => []Accounting
<1>1. Init => AccountInv
  BY LoopAssumption DEF Init, AccountInv, Accounting, Counting, Measured, WirePc, StmtPc
<1>2. AccountInv => Accounting
  BY DEF AccountInv
<1> QED
  BY <1>1, <1>2, AccountStep, TraceInvariant, PTL DEF Spec, Safety

---------------------------------------------------------------------------
(* The round trips of a successful iteration *)

(* Every step keeps track of the statements to deallocate (RunOne, and the *)
(* first snapshot, runner.go:123).                                         *)
LEMMA StaleStep == TraceInv /\ Stale /\ [Next]_vars => Stale'
<1> SUFFICES ASSUME TraceInv, Stale, [Next]_vars PROVE Stale'
  OBVIOUS
<1> USE NAssumption DEF WirePc, StmtPc, Stale, FillsCache
<1>1. CASE (Send \/ Refuse \/ Lose) /\ UNCHANGED cell
  BY <1>1 DEF Send, Refuse, Lose, ErrorPc
<1>2. CASE DeallocateOk
  BY <1>2 DEF DeallocateOk, Deallocates, CallPc
<1>3. CASE BeginOk \/ SetLocalOk \/ CommitOk \/ RollbackOk
  BY <1>3 DEF BeginOk, SetLocalOk, CommitOk, RollbackOk, Ok, QueryPc, Deallocates, CallPc, Usable, TraceInv,
     ModePc, Progress, Txn
<1>4. CASE SetOk \/ ResetOk \/ UnsetOk
  BY <1>4 DEF SetOk, ResetOk, UnsetOk, Ok, QueryPc, Deallocates, CallPc, Usable, TraceInv, ModePc, Progress,
     Txn
<1>5. CASE PrepareOk \/ ParseOk
  BY <1>5 DEF PrepareOk, ParseOk, Put, Ok, Deallocates, CallPc, TraceInv, ModePc, Progress
<1>6. CASE ExecOk
  BY <1>6 DEF ExecOk, Ok, QueryPc, DonePc, AllDone, Deallocates, CallPc, TraceInv, TypeOK, RunOneTypeOK,
     ModePc, Progress
<1>7. CASE SimpleOk \/ BatchOk
  BY <1>7 DEF SimpleOk, BatchOk, Ok, TraceInv, ModePc
<1>8. CASE DeallocateErr \/ TxnErr \/ SetLocalErr \/ StmtErr \/ CommitErr \/ GucErr \/ SimpleErr
           \/ ParseErr \/ BatchErr
  <2>1. /\ pc' \in {"ret", "rollback", "unset"} /\ err'
        /\ evicted' = evicted /\ mode' = mode
    BY <1>8 DEF DeallocateErr, TxnErr, SetLocalErr, StmtErr, CommitErr, GucErr, SimpleErr, ParseErr, BatchErr,
       Failed, ErrorPc
  <2> QED
    BY <2>1
<1>9. CASE StartIteration
  <2>1. /\ stale' = stale /\ due' = stale /\ evicted' = FALSE
        /\ pc' \in {"begin", "set", "simple", "parse", "prepare", "exec"}
    BY <1>9 DEF StartIteration, Enter, FirstPc, QueryPc
  <2> QED
    BY <2>1
<1>10. CASE TakeBeforeFail
  BY <1>10 DEF TakeBeforeFail
<1>11. CASE Connect \/ ConnectFail \/ WorkloadSetup \/ WorkloadSetupFail \/ ModeSetup
            \/ TakeBefore \/ TakeAfter \/ TakeAfterFail
  BY <1>11 DEF Connect, ConnectFail, WorkloadSetup, WorkloadSetupFail, ModeSetup, TakeBefore,
     TakeAfter, TakeAfterFail, call
<1>12. CASE LoopCancelled \/ LoopDone \/ WarmupFailed \/ ObserveError \/ Observe \/ Close
  BY <1>12 DEF LoopCancelled, LoopDone, WarmupFailed, ObserveError, Observe, Close, call
<1>13. CASE Cancel \/ UNCHANGED vars
  BY <1>13 DEF Cancel, vars, call
<1> QED
  BY <1>1, <1>2, <1>3, <1>4, <1>5, <1>6, <1>7, <1>8, <1>9, <1>10, <1>11, <1>12, <1>13
  DEF Next, Returned, RunOne, RunOneStep, Answer

(* What a deallocation, and a prepare that evicts, do to their count. *)
LEMMA DeallocatedType == ASSUME CacheTypeOK PROVE Deallocated \in Int
BY DEF Deallocated, One

LEMMA DeallocatedKept ==
    ASSUME UNCHANGED <<stale, due, evicted>> PROVE Deallocated' = Deallocated
BY DEF Deallocated, One

LEMMA DeallocatedMore ==
    ASSUME CacheTypeOK, DeallocateOk PROVE Deallocated' = Deallocated + 1
<1>1. stale = TRUE /\ stale' = FALSE /\ due' = due /\ evicted' = evicted
  BY DEF DeallocateOk, Deallocates, CacheTypeOK
<1>2. One(due) \in Int /\ One(evicted) \in Int /\ One(stale) = 1 /\ One(stale)' = 0
  BY <1>1 DEF One
<1>3. One(due)' = One(due) /\ One(evicted)' = One(evicted)
  BY <1>1 DEF One
<1> QED
  BY <1>2, <1>3 DEF Deallocated

LEMMA DeallocatedPut ==
    ASSUME TraceInv, Stale, Put, ~Deallocates, Usable(srv), pc \in {"prepare", "parse"}, due' = due
    PROVE  Deallocated' = Deallocated
<1>1. stale = FALSE /\ evicted = FALSE /\ evicted' \in BOOLEAN /\ stale' = (stale \/ evicted')
  BY DEF TraceInv, TypeOK, RunOneTypeOK, CacheTypeOK, Stale, Put, Deallocates, CallPc, WirePc, StmtPc
<1>2. One(stale) = 0 /\ One(evicted) = 0 /\ One(stale)' = One(evicted)' /\ One(due)' = One(due)
  BY <1>1 DEF One
<1>3. One(due) \in Int /\ One(evicted)' \in Int
  BY DEF One
<1> QED
  BY <1>2, <1>3 DEF Deallocated

(* Every step preserves the round trips paid so far, at every request. *)
LEMMA PaidStep == TraceInv /\ Stale /\ Paid /\ [Next]_vars => Paid'
<1> SUFFICES ASSUME TraceInv, Stale, Paid, [Next]_vars PROVE Paid'
  OBVIOUS
<1> USE NAssumption DEF WirePc, StmtPc, Paid, Cost, Lead, Cold, One
<1>1. rtt \in Nat /\ k \in Nat /\ mode \in AllModes /\ cold \in BOOLEAN /\ cached \in BOOLEAN
  BY RunModesAssumption DEF TraceInv, TypeOK, RunOneTypeOK, CacheTypeOK
<1>0. Deallocated \in Int
  BY DeallocatedType DEF TraceInv, TypeOK, RunOneTypeOK
<1>2. CASE Send /\ UNCHANGED cell
  <2>1. Deallocated' = Deallocated
    BY <1>2, DeallocatedKept DEF Send
  <2> QED
    BY <1>0, <1>1, <1>2, <2>1 DEF Send
<1>3. CASE (Refuse \/ Lose) /\ UNCHANGED cell
  BY <1>3 DEF Refuse, Lose, ErrorPc, Hangup, session
<1>4. CASE Answer /\ UNCHANGED cell
  <2>1. CASE DeallocateOk
    <3>1. Deallocated' = Deallocated + 1
      BY <2>1, DeallocatedMore DEF TraceInv, TypeOK, RunOneTypeOK
    <3> QED
      BY <1>0, <1>1, <2>1, <3>1 DEF DeallocateOk, Deallocates, CallPc, Flush
  <2>2. CASE BeginOk \/ SetLocalOk \/ CommitOk \/ RollbackOk
    <3>1. Deallocated' = Deallocated
      BY <2>2, DeallocatedKept DEF BeginOk, SetLocalOk, CommitOk, RollbackOk, Ok
    <3> QED
      BY <1>0, <1>1, <2>2, <3>1 DEF BeginOk, SetLocalOk, CommitOk, RollbackOk, Ok, Flush, QueryPc, TraceInv,
         ModePc, Progress
  <2>3. CASE SetOk \/ ResetOk \/ UnsetOk
    <3>1. Deallocated' = Deallocated
      BY <2>3, DeallocatedKept DEF SetOk, ResetOk, UnsetOk, Ok
    <3> QED
      BY <1>0, <1>1, <2>3, <3>1 DEF SetOk, ResetOk, UnsetOk, Ok, Flush, QueryPc, TraceInv, ModePc, Progress
  <2>4. CASE PrepareOk
    <3>1. Deallocated' = Deallocated
      BY <2>4, DeallocatedPut DEF PrepareOk, Ok
    <3> QED
      BY <1>0, <1>1, <2>4, <3>1 DEF PrepareOk, Ok, Flush, TraceInv, Progress
  <2>5. CASE ExecOk
    <3>1. Deallocated' = Deallocated
      BY <2>5, DeallocatedKept DEF ExecOk, Ok
    <3> QED
      BY <1>0, <1>1, <2>5, <3>1 DEF ExecOk, Ok, Flush, QueryPc, DonePc, AllDone, TraceInv, ModePc, Progress
  <2>6. CASE SimpleOk \/ BatchOk
    <3>1. Deallocated' = Deallocated
      BY <2>6, DeallocatedKept DEF SimpleOk, BatchOk, Ok
    <3> QED
      BY <1>0, <1>1, <2>6, <3>1 DEF SimpleOk, BatchOk, Ok, Flush, TraceInv, ModePc
  <2>7. CASE ParseOk
    <3>1. Deallocated' = Deallocated
      BY <2>7, DeallocatedPut DEF ParseOk, Ok
    <3> QED
      BY <1>0, <1>1, <2>7, <3>1 DEF ParseOk, Ok, Flush, TraceInv, ModePc
  <2>8. CASE DeallocateErr \/ TxnErr \/ SetLocalErr \/ StmtErr \/ CommitErr \/ GucErr \/ SimpleErr
             \/ ParseErr \/ BatchErr
    <3>1. pc' \in {"ret", "rollback", "unset"} /\ err' = TRUE
      BY <2>8 DEF DeallocateErr, TxnErr, SetLocalErr, StmtErr, CommitErr, GucErr, SimpleErr, ParseErr,
         BatchErr, Failed, ErrorPc
    <3> QED
      BY <3>1
  <2> QED
    BY <1>4, <2>1, <2>2, <2>3, <2>4, <2>5, <2>6, <2>7, <2>8 DEF Answer
<1>5. CASE StartIteration
  <2> DEFINE hit == cached /\ mode # "3"
  <2>1. /\ ~inflight' /\ rtt' = 0 /\ k' = 0 /\ cached' = hit /\ cold' = ~hit
        /\ pc' = FirstPc(hit) /\ mode' = mode
    BY <1>5 DEF StartIteration, Enter, TraceInv, Wire
  <2>2. \/ pc' \in {"begin", "set", "simple", "parse"}
        \/ pc' = "prepare" /\ ~hit /\ mode \notin {"1a", "1b"}
        \/ pc' = "exec" /\ hit /\ mode \notin {"1a", "1b"}
    BY <2>1 DEF FirstPc, QueryPc
  <2>3. Deallocated' = 0
    <3>1. due' = stale /\ stale' = stale /\ evicted' = FALSE
      BY <1>5 DEF StartIteration, Enter
    <3>2. One(due)' = One(stale)' /\ One(evicted)' = 0 /\ One(stale)' \in Int
      BY <3>1
    <3> QED
      BY <3>2 DEF Deallocated
  <2>4. CASE hit
    <3>1. cached' = TRUE /\ cold' = FALSE
      BY <1>1, <2>1, <2>4
    <3> QED
      BY <1>1, <2>1, <2>2, <2>3, <2>4, <3>1
  <2>5. CASE ~hit
    <3>1. cached' = FALSE /\ cold' = TRUE
      BY <1>1, <2>1, <2>5
    <3> QED
      BY <1>1, <2>1, <2>2, <2>3, <2>5, <3>1
  <2> QED
    BY <2>4, <2>5
<1>6. CASE Connect \/ ConnectFail \/ WorkloadSetup \/ WorkloadSetupFail \/ ModeSetup
           \/ TakeBefore \/ TakeBeforeFail \/ TakeAfter \/ TakeAfterFail
  BY <1>6 DEF Connect, ConnectFail, WorkloadSetup, WorkloadSetupFail, ModeSetup, TakeBefore,
     TakeBeforeFail, TakeAfter, TakeAfterFail
<1>7. CASE LoopCancelled \/ LoopDone \/ WarmupFailed \/ ObserveError \/ Observe \/ Close
  BY <1>7 DEF LoopCancelled, LoopDone, WarmupFailed, ObserveError, Observe, Close
<1>8. CASE Cancel \/ UNCHANGED vars
  <2>1. Deallocated' = Deallocated
    BY <1>8, DeallocatedKept DEF Cancel, vars, call
  <2> QED
    BY <1>8, <2>1 DEF Cancel, CtxDone, vars, session, call
<1> QED
  BY <1>2, <1>3, <1>4, <1>5, <1>6, <1>7, <1>8 DEF Next, Returned, RunOne, RunOneStep

(* At the end of a successful iteration: which deallocations it has paid. *)
LEMMA DeallocatedAtReturn ==
    ASSUME TraceInv, Stale, pc = "ret", ~err
    PROVE  Deallocated = (IF due /\ mode # "2a" THEN 1 ELSE 0)
                         + (IF evicted /\ mode = "3" /\ N > 1 THEN 1 ELSE 0)
<1>1. stale \in BOOLEAN /\ due \in BOOLEAN /\ evicted \in BOOLEAN
  BY DEF TraceInv, TypeOK, RunOneTypeOK, CacheTypeOK
<1>2. CASE mode = "2a"
  BY <1>1, <1>2 DEF Stale, FillsCache, Deallocated, One
<1>3. CASE mode # "2a"
  BY <1>1, <1>3 DEF Stale, Deallocated, One
<1> QED
  BY <1>2, <1>3

(* A successful iteration pays the round trips of its mode, one more when  *)
(* its statement was not prepared yet, and one for every deallocation of   *)
(* what it, or an iteration before it, left on the server.                 *)
THEOREM RoundTripsCorrect == Spec => []RoundTrips
<1>1. Init => CostInv
  BY DEF Init, CostInv, Stale, Paid
<1>2. TraceInv /\ CostInv /\ [Next]_vars => CostInv'
  BY StaleStep, PaidStep DEF CostInv
<1>3. TraceInv /\ CostInv => RoundTrips
  <2> SUFFICES ASSUME TraceInv, CostInv, pc = "ret", ~err
               PROVE  rtt = Cost + (IF cold /\ mode \notin {"2a", "2b"} THEN 1 ELSE 0)
                                 + (IF due /\ mode # "2a" THEN 1 ELSE 0)
                                 + (IF evicted /\ mode = "3" /\ N > 1 THEN 1 ELSE 0)
    BY DEF RoundTrips
  <2>1. rtt - Deallocated = Cost + (IF mode \in {"2a", "2b"} THEN 0 ELSE Cold)
    BY DEF CostInv, Paid, TraceInv, Wire, WirePc, StmtPc
  <2>2. Deallocated = (IF due /\ mode # "2a" THEN 1 ELSE 0)
                      + (IF evicted /\ mode = "3" /\ N > 1 THEN 1 ELSE 0)
    BY DeallocatedAtReturn DEF CostInv
  <2>3. rtt \in Int /\ Cost \in Int
    BY NAssumption DEF Cost, TraceInv, TypeOK, RunOneTypeOK
  <2> QED
    BY <2>1, <2>2, <2>3 DEF Cold, One
<1> QED
  BY <1>1, <1>2, <1>3, TraceInvariant, PTL DEF Spec, Safety

(* With a workload of one statement mode 4 keeps to the one round trip     *)
(* that its comment promises (m4.go:28-29).                                *)
THEOREM OneStatementTakesOneRoundTrip ==
    ASSUME N = 1 PROVE Spec => []PipelinedModesTakeOneRoundTrip
<1>1. RoundTrips => PipelinedModesTakeOneRoundTrip
  BY DEF RoundTrips, Cost, PipelinedModesTakeOneRoundTrip
<1> QED
  BY <1>1, RoundTripsCorrect, PTL

---------------------------------------------------------------------------
(* Refinement *)

(* A step of RunOne leaves the abstract iteration alone or attributes      *)
(* statements to a context of its own.                                     *)
LEMMA RunOneRefines ==
    ASSUME TraceInv, RunOneStep
    PROVE  \/ UNCHANGED <<k, seen>>
           \/ k' \in k .. N /\ \E c \in P!Legit(mode, it) : seen' = seen \cup {c}
<1> USE DEF WirePc, StmtPc
<1>1. k \in 0 .. N /\ N \in Nat
  BY NAssumption DEF TraceInv, TypeOK, RunOneTypeOK
<1> DEFINE s == SetLocal(Begin(srv), it)
<1>2. s.local = it /\ s.guc = srv.guc /\ s.hdr = srv.hdr
  BY Piped DEF TraceInv
<1> HIDE DEF s
<1>3. pc \in {"simple", "batch"} => StmtTrace(s) \in P!Legit(mode, it)
  BY <1>2 DEF TraceInv, ModePc, Where, Progress, StmtTrace, TraceOf, NoTrace, P!Legit
<1>4. CASE ExecOk
  <2>1. pc = "exec" /\ k' = k + 1 /\ seen' = seen \cup {StmtTrace(Deliver(srv))}
    BY <1>4 DEF ExecOk, Ok
  <2>2. k' \in k .. N
    BY <1>1, <2>1 DEF TraceInv, Progress
  <2> QED
    BY <2>1, <2>2, StmtTraceLegit
<1>5. CASE SimpleOk \/ BatchOk
  <2>1. pc \in {"simple", "batch"} /\ k' = N /\ seen' = seen \cup {StmtTrace(s)}
    BY <1>5 DEF SimpleOk, BatchOk, Ok, s
  <2> QED
    BY <1>1, <1>3, <2>1
<1>6. CASE SimpleErr \/ BatchErr
  <2>1. pc \in {"simple", "batch"} /\ k' = k /\ seen' \in {seen, seen \cup {StmtTrace(s)}}
    BY <1>6 DEF SimpleErr, BatchErr, Failed, s
  <2> QED
    BY <1>1, <1>3, <2>1
<1>7. CASE Send \/ Refuse \/ Lose \/ DeallocateOk \/ DeallocateErr
  BY <1>7 DEF Send, Refuse, Lose, DeallocateOk, DeallocateErr
<1>8. CASE BeginOk \/ SetLocalOk \/ CommitOk \/ RollbackOk \/ SetOk \/ ResetOk \/ UnsetOk \/ PrepareOk \/ ParseOk
  BY <1>8 DEF BeginOk, SetLocalOk, CommitOk, RollbackOk, SetOk, ResetOk, UnsetOk, PrepareOk, ParseOk
<1>9. CASE TxnErr \/ SetLocalErr \/ StmtErr \/ CommitErr \/ GucErr \/ ParseErr
  BY <1>9 DEF TxnErr, SetLocalErr, StmtErr, CommitErr, GucErr, ParseErr, Failed
<1> QED
  BY <1>4, <1>5, <1>6, <1>7, <1>8, <1>9 DEF RunOneStep, Answer

(* Every step of Run is a step of the abstract cell or leaves it alone. *)
LEMMA StepRefines == TraceInv /\ [Next]_vars => [P!Next]_(P!pvars)
<1> SUFFICES ASSUME TraceInv, [Next]_vars PROVE P!Next \/ UNCHANGED P!pvars
  OBVIOUS
<1> USE DEF WirePc, StmtPc
<1>1. CASE RunOne
  <2>1. pc \in WirePc /\ pc' \in WirePc \cup {"ret"} /\ UNCHANGED <<mode, it, observed, errors>>
    BY <1>1, RunOneShape DEF RunOne, cell
  <2> QED
    BY <1>1, <2>1, RunOneRefines DEF RunOne, P!Next, P!Attribute, P!pvars
<1>2. CASE StartIteration
  BY <1>2 DEF StartIteration, Enter, FirstPc, QueryPc, More, Total, cell, P!Next, P!Start
<1>3. CASE Observe
  BY <1>3 DEF Observe, call, Measured, TraceInv, Progress, P!Next, P!Succeed
<1>4. CASE WarmupFailed \/ ObserveError
  BY <1>4, LoopAssumption DEF WarmupFailed, ObserveError, call, Measured, TraceInv, TypeOK, RunOneTypeOK,
     Traces, Total, P!Next, P!Fail
<1>5. CASE ConnectFail \/ WorkloadSetupFail \/ LoopCancelled \/ LoopDone
  BY <1>5 DEF ConnectFail, WorkloadSetupFail, LoopCancelled, LoopDone, call, cell, P!Next, P!Stop
<1>6. CASE ModeSetup
  BY <1>6 DEF ModeSetup, call, P!Next, P!Stop, P!pvars
<1>7. CASE Connect \/ WorkloadSetup \/ TakeBefore \/ TakeBeforeFail \/ TakeAfter \/ TakeAfterFail
           \/ Close \/ Cancel \/ UNCHANGED vars
  BY <1>7 DEF Connect, WorkloadSetup, TakeBefore, TakeBeforeFail, TakeAfter, TakeAfterFail, Close,
     Cancel, vars, call, cell, P!pvars
<1> QED
  BY <1>1, <1>2, <1>3, <1>4, <1>5, <1>6, <1>7 DEF Next, Returned

(* Run with any of its modes implements the abstract cell of Propagation.  *)
THEOREM RunnerImplementsPropagation == Spec => ImplementsPropagation
<1>1. Init => P!Init
  BY DEF Init, P!Init, WirePc, StmtPc
<1> QED
  BY <1>1, StepRefines, TraceInvariant, PTL DEF Spec, Safety, ImplementsPropagation, P!Spec
=============================================================================
