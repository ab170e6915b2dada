--------------------------- MODULE MCWorkerLedger ---------------------------
(* Instances of WorkerLedger for TLC. *)
EXTENDS WorkerLedgerSlots, WorkerLedgerInv, TLC

CONSTANTS j1, j2, j3, j4, j5, l1, l2, l3, l4, l5, c1, c2

Ask(j, k, t, p, s) == [job |-> j, kind |-> k, task |-> t, prev |-> p, scope |-> s]

(* One slot per pool; two slots per pool. *)
OneEach == [k \in Kinds |-> 1]
TwoEach == [k \in Kinds |-> 2]

(* One Luna job, launched once. *)
OneLuna == (l1 :> Ask(j1, "luna", "t1", NoJob, {"a"}))

(* A Luna job, and a Gemini job whose idempotency key is used by two calls. *)
SharedKey == (l1 :> Ask(j1, "luna", "t1", NoJob, {"a"}))
          @@ (l2 :> Ask(j2, "gemini", "t2", NoJob, {"a"}))
          @@ (l3 :> Ask(j2, "gemini", "t2", NoJob, {"a"}))

(* Two Gemini jobs that compete for a slot. *)
TwoGemini == (l1 :> Ask(j1, "gemini", "t1", NoJob, {}))
          @@ (l2 :> Ask(j2, "gemini", "t2", NoJob, {}))

(* Two writers of different pools over one path; a task that only reads, its *)
(* recovery attempt, and a third attempt at the same task: neither scope nor *)
(* capacity keeps those apart.                                               *)
Tasks == (l1 :> Ask(j1, "luna", "t1", NoJob, {"a", "b"}))
      @@ (l2 :> Ask(j2, "sonnet", "t2", NoJob, {"b"}))
      @@ (l3 :> Ask(j3, "luna", "t3", NoJob, {}))
      @@ (l4 :> Ask(j4, "luna", "t3", j3, {}))
      @@ (l5 :> Ask(j5, "luna", "t3", j4, {}))

(* Bounds: which of the calls one behaviour may contain. *)
Calling  == {l \in Launchers : lpc[l] # "reserve"}
OneJob   == Calling \subseteq {l1} \/ Calling \subseteq {l2, l3}
OneGroup == Calling \subseteq {l1, l2} \/ Calling \subseteq {l3, l4, l5}
=============================================================================
