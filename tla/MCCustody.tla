----------------------------- MODULE MCCustody -----------------------------
(***************************************************************************)
(* Small instances of the four parts that decide what outlives a request:  *)
(* what a session leaves on disk, which sessions the hosts hold, find      *)
(* again or leave behind, what their tokens admit, and how the commands of *)
(* cu find both.  One run checks them as a disjoint sum: the initial state *)
(* says which part runs, and the others stay as they started.  The last    *)
(* two share the daemon of Authority.                                      *)
(***************************************************************************)
EXTENDS TraceStore, HostSessions, CuCommands, TLC

VARIABLE part   \* the part that runs

custodyVars == <<part, storeVars, sessionVars, cuVars>>

CustodyInit ==
  /\ TraceInit /\ HostInit /\ CuInit
  /\ part \in {"traces", "hosts", "authority", "commands"}
  /\ part # "traces" => mode = "required"
  /\ part # "hosts" => \A h \in Hosts : hostKind[h] = "mcp"
  /\ part # "commands" => files = {}
  /\ part # "authority" => version = SdkVersion

\* Bound: once the one-shot command has begun, a host leaves a flow idle.
FewAtOnce == cli' = "idle" \/ \A h \in Hosts : \E k \in Flows : call'[h][k] = Idle

CustodyNext ==
  /\ \/ part = "traces" /\ TraceNext /\ UNCHANGED <<sessionVars, cuVars>>
     \/ part = "hosts" /\ HostNext /\ FewAtOnce /\ UNCHANGED <<storeVars, cuVars>>
     \/ part = "authority" /\ AuthorityNext /\ UNCHANGED <<storeVars, sessionVars, shellVars>>
     \/ part = "commands" /\ CuNext /\ UNCHANGED <<storeVars, sessionVars>>
  /\ UNCHANGED part

CustodySpec == CustodyInit /\ [][CustodyNext]_custodyVars

\* Every variable of the part that runs has its type; the others do not change.
CustodyTypeOK ==
  /\ part = "traces" => TraceTypeOK
  /\ part = "hosts" => HostTypeOK
  /\ part \in {"authority", "commands"} => AuthorityTypeOK
  /\ part = "commands" => CuTypeOK

\* Recorded sessions are interchangeable, and so are the calls of a host and
\* the sessions that tokens are for (one set of values serves all four), the
\* clients and the processes of cu.
CustodySymmetry == Permutations(Ids) \cup Permutations(Callers)

=============================================================================
