---------------------------------- MODULE Calls ----------------------------------
(***************************************************************************)
(* The calls a browser page has under way.  A page waits for no call       *)
(* before it makes the next one, so the server carries calls out in any    *)
(* order, and their answers arrive in any order: they are a set of         *)
(* records.  kind names the call; st is "sent" until the server has dealt  *)
(* with it, then "ok" or "refused"; arg is what the call carries, and once *)
(* it is carried out what its answer carries.  Equal calls at the same     *)
(* stage are one element: they do and answer the same.                     *)
(***************************************************************************)
EXTENDS FiniteSets, Naturals

Nothing == [none |-> 0]
Sent(kind, arg) == [st |-> "sent", kind |-> kind, arg |-> arg]

Is(call, st, kind) == call.st = st /\ call.kind = kind

\* The server carries a call out and answers with r, or refuses it.
Moved(calls, call, st, arg) ==
  (calls \ {call}) \cup {[st |-> st, kind |-> call.kind, arg |-> arg]}
Done(calls, call, r) == Moved(calls, call, "ok", r)
Denied(calls, call)  == Moved(calls, call, "refused", call.arg)

OfKind(calls, kind) == {c \in calls : c.kind = kind}
==================================================================================
