------------------------------ MODULE MCToolchain ------------------------------
(* What the components of Toolchain are given, and how much of it. *)
EXTENDS Toolchain, MCReports

CONSTANTS r1, r2, p1, p2, a1, a2, e1, e2

\* Two promotions of one run that may overlap, with failing rollbacks.
MCRunOf == [p \in Promotions |-> r1]

\* What the agent of the finder arms may post: a call for either repository, and a search
\* with a call for one of them, which has no request id, in one batch.
Call(id, repo) == [id |-> id, tool |-> "code_finder", repo |-> repo]
Search(id)     == [id |-> id, tool |-> "search", repo |-> Nothing]
MCPosts == {<<Call(1, r1)>>, <<Call(2, r2)>>, <<Search(2), Call(Nothing, r2)>>}

\* A run of the first attempt, and runs of either for a second process: the same trial, or
\* both attempts in either order.
MCRunsOf == (e1 :> {t \in Trials : t.attempt = 1}) @@ (e2 :> Trials)

\* Two successions, which between them bind and rewrite in every way there is.
MCLineages == {<<"v1", "v3", "v6">>, <<"v1", "v5">>}

\* The canary has no more inputs than the others, but two dispatchers.
MCMaxEdits == [cheap |-> 2, parity |-> 2, canary |-> 1]

\* One arm that may be tried twice, and two arms.
MCShapes == {[arms |-> {a1}, tries |-> 2], [arms |-> {a1, a2}, tries |-> 1]}

\* A project that is pinned at one revision or the other, at both, or not really.
MCPinSets == {{<<p1, 1>>}, {<<p1, 2>>}, {<<p1, 1>>, <<p1, 2>>}, {<<p1, Unpinned>>}}
MCAgentRepos == {<<p1, 1>>, <<p1, 2>>, <<p1, Unpinned>>, <<p2, 1>>}
MCTaskPins == {[repo |-> p1, rev |-> 1], [repo |-> p1, rev |-> 2]}

\* Two profiles of one account, one of another; a reading near the end of a week, one at
\* the end of its five hours, and one at the end of a week that is soon over.
MCAccountOf == [p \in Profiles |-> IF p = "z" THEN a2 ELSE a1]
MCFetchedAs == [a \in Accounts |-> IF a = a2 THEN "z" ELSE "x"]
MCReadings == {[five |-> 0, seven |-> 90, soon |-> FALSE],
               [five |-> 97, seven |-> 0, soon |-> FALSE],
               [five |-> 40, seven |-> 97, soon |-> TRUE]}

\* Files of one directory, in the root and in repositories, one of which is below another.
MCPaths == {<<"d", "f">>, <<"d", "g">>, <<"r", "d", "f">>, <<"x", "r", "d", "f">>}
===============================================================================
