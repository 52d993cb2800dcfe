------------------------------ MODULE MCServices ------------------------------
(* Values for the constants of Services.                                      *)
EXTENDS Services, TLC

-----------------------------------------------------------------------------
(* ToolCache: two groups list one tool, and it comes to be listed by one of them
   only; a blacklisted tool; a group that goes *)

MCCatalogues == {("g1" :> {"t1", "t3"}) @@ ("g2" :> {"t1"}), ("g2" :> {"t1"})}

-----------------------------------------------------------------------------
(* ChatLoop *)

Message(role, content, calls, answers) ==
  [role |-> role, content |-> content, calls |-> calls, answers |-> answers]

User == Message("user", "text", <<>>, <<>>)
Calls(content, ids) == Message("assistant", content, ids, <<>>)
Result(content, call) == Message("tool", content, <<>>, <<call>>)

\* A first turn; two calls one of whose results came without content; a result without
\* content whose call is missing; an id that two turns used, without content both times;
\* two results of one call without content.
MCHistories ==
  {<<User>>,
   <<User, Calls("none", <<"a", "b">>), Result("none", "a"), Result("text", "b")>>,
   <<User, Result("none", "b"), User>>,
   <<User, Calls("text", <<"a">>), Result("none", "a"), Calls("none", <<"a">>), Result("none", "a")>>,
   <<User, Calls("none", <<"a">>), Result("none", "a"), Result("none", "a")>>}

-----------------------------------------------------------------------------
(* Properties *)

\* What a request, 1 or 2, waits for in each service; in the last one, what a published
\* post with a slot for it waits for: its id. Post 1 has no slot.
Waits(r) ==
  \/ convPc[r] # "idle" \/ cachePc[r] # "idle"
  \/ r = 1 /\ chatPc \notin {"idle", "answered"}
  \/ r = 2 /\ service = "toots" /\ 2 \notin draft /\ id[2] = Slot

\* Every request of the proxies is answered or broken off, whoever else holds a lock or
\* fails, and every post is announced, whatever became of the posts before it.
EveryoneServed == \A r \in Req : Waits(r) ~> ~Waits(r)

=============================================================================
