---------------------------- MODULE CommandStore ----------------------------
(***************************************************************************)
(* What handleOperation promises about commands with an Idempotency-Key,   *)
(* without transactions, locks or races: a request takes effect and is     *)
(* answered in one indivisible step. It executes, if nobody has executed   *)
(* under its key and its record has the version it expects; it repeats the *)
(* answer of who did; it is told that the record has moved; or it fails    *)
(* and leaves nothing behind.                                              *)
(***************************************************************************)
EXTENDS Naturals

CONSTANTS
  Requests,
  Keys,
  Records,
  Asks,      \* of a request: its key, fingerprint, record and expected version
  None

VARIABLES
  executed,  \* by key, the request whose command took effect
  version,   \* of each record
  told       \* what the caller of each request has heard

cvars == <<executed, version, told>>

Says(kind, s) == [kind |-> kind, by |-> s]

CInit == /\ executed = [k \in Keys |-> None]
         /\ version = [x \in Records |-> 1]
         /\ told = [r \in Requests |-> Says("none", None)]

\* A caller hears one answer.
Hears(r, answer) == /\ told[r].kind = "none"
                    /\ told' = [told EXCEPT ![r] = answer]

\* The command takes effect; its answer may be lost on the way.
ExecuteOnce(r) ==
  LET q == Asks[r] IN
  /\ executed[q.key] = None
  /\ q.record # None => version[q.record] = q.expects
  /\ executed' = [executed EXCEPT ![q.key] = r]
  /\ version' = [x \in Records |-> IF x = q.record THEN version[x] + 1 ELSE version[x]]
  /\ Hears(r, Says("ok", r)) \/ Hears(r, Says("error", None))

\* The same request is told what the first one was told, another one of the conflict.
Repeat(r) ==
  LET s == executed[Asks[r].key] IN
  /\ s # None
  /\ Hears(r, IF Asks[s].print = Asks[r].print THEN Says("ok", s) ELSE Says("conflict", None))
  /\ UNCHANGED <<executed, version>>

Refuse(r) ==
  /\ Asks[r].record # None /\ version[Asks[r].record] # Asks[r].expects
  /\ Hears(r, Says("stale", None))
  /\ UNCHANGED <<executed, version>>

Fail(r) == Hears(r, Says("error", None)) /\ UNCHANGED <<executed, version>>

CNext == \E r \in Requests : ExecuteOnce(r) \/ Repeat(r) \/ Refuse(r) \/ Fail(r)

CSpec == CInit /\ [][CNext]_cvars
=============================================================================
