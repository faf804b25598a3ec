-------------------------- MODULE MCChainDatabase --------------------------
(***************************************************************************)
(* Block trees for ChainDatabase.  A tree is a function from block to      *)
(* [num, prev, wit, trx].                                                  *)
(***************************************************************************)
EXTENDS ChainDatabase

FirstBlock == <<"a1">>
NoBlocks   == <<>>

MCConflicts == {<<"t2", "t3">>, <<"t3", "t2">>}

\* Each block has the slot of its number.  t1 expires before the chains end;
\* t2 goes with every chain; t3 needs a2.
ForkedRef     == [t \in {"t1", "t2", "t3"} |-> IF t = "t3" THEN "a2" ELSE "a1"]
ForkedExpires == [t \in {"t1", "t2", "t3"} |->
                     CASE t = "t1" -> 3 [] t = "t2" -> 5 [] t = "t3" -> 5]

\* t1 is expired on top of a block 4; t3 refers to a2, which a switch abandons;
\* t2 can be pending on a block 3, and expires too far from the block 2 that a
\* chain may be unwound to.
FailingRef     == [t \in {"t1", "t2", "t3"} |-> IF t = "t3" THEN "a2" ELSE "zero"]
FailingExpires == [t \in {"t1", "t2", "t3"} |->
                     CASE t = "t1" -> 4 [] t = "t2" -> 6 [] t = "t3" -> 5]

NoTrxRef     == [t \in {} |-> Genesis]
NoTrxExpires == [t \in {} |-> 0]

Block(num, prev, wit, trx) == [num |-> num, prev |-> prev, wit |-> wit, trx |-> trx]

NumIn(tree) == [b \in DOMAIN tree \cup {"zero"} |-> IF b = "zero" THEN 0 ELSE tree[b].num]

\* Three valid branches.  The common one goes round the three witnesses; q
\* alone made b2 and b3, r alone c4 and c5, and neither can confirm a block.
\* t1 is in two branches, t3 conflicts with t2.
Forked ==
    [b \in {"a1", "a2", "a3", "a4", "a5", "b2", "b3", "c4", "c5"} |->
       CASE b = "a1" -> Block(1, "zero", "p", {})
         [] b = "a2" -> Block(2, "a1", "q", {"t1"})
         [] b = "a3" -> Block(3, "a2", "r", {})
         [] b = "a4" -> Block(4, "a3", "p", {"t3"})
         [] b = "a5" -> Block(5, "a4", "q", {})
         [] b = "b2" -> Block(2, "a1", "q", {"t2"})
         [] b = "b3" -> Block(3, "b2", "q", {"t1"})
         [] b = "c4" -> Block(4, "a3", "r", {"t2"})
         [] b = "c5" -> Block(5, "c4", "r", {})]

ForkedBlocks   == DOMAIN Forked
ForkedPrevious == [b \in DOMAIN Forked |-> Forked[b].prev]
ForkedWitness  == [b \in DOMAIN Forked |-> Forked[b].wit]
ForkedTrx      == [b \in DOMAIN Forked |-> Forked[b].trx]
ForkedNum      == NumIn(Forked)

\* Two longer branches, when MaxWitnesses is 1: one turns out bad half way,
\* x4 carries t1 a second time, the other leaves the chain below its last
\* irreversible block.
Failing ==
    [b \in {"a1", "a2", "a3", "b3", "x4", "c2", "c3", "c4"} |->
       CASE b = "a1" -> Block(1, "zero", "p", {})
         [] b = "a2" -> Block(2, "a1", "q", {"t1"})
         [] b = "a3" -> Block(3, "a2", "p", {"t3"})
         [] b = "b3" -> Block(3, "a2", "p", {})
         [] b = "x4" -> Block(4, "b3", "q", {"t1"})
         [] b = "c2" -> Block(2, "a1", "q", {})
         [] b = "c3" -> Block(3, "c2", "p", {})
         [] b = "c4" -> Block(4, "c3", "q", {})]

FailingBlocks   == DOMAIN Failing
FailingPrevious == [b \in DOMAIN Failing |-> Failing[b].prev]
FailingWitness  == [b \in DOMAIN Failing |-> Failing[b].wit]
FailingTrx      == [b \in DOMAIN Failing |-> Failing[b].trx]
FailingNum      == NumIn(Failing)

\* One chain, an invalid block on top of a3 and a block beside a2.
Stub ==
    [b \in {"a1", "a2", "a3", "a4", "c2", "x4"} |->
       CASE b = "a1" -> Block(1, "zero", "p", {})
         [] b = "a2" -> Block(2, "a1", "q", {})
         [] b = "a3" -> Block(3, "a2", "p", {})
         [] b = "a4" -> Block(4, "a3", "q", {})
         [] b = "c2" -> Block(2, "a1", "p", {})
         [] b = "x4" -> Block(4, "a3", "p", {})]

StubBlocks   == DOMAIN Stub
StubPrevious == [b \in DOMAIN Stub |-> Stub[b].prev]
StubWitness  == [b \in DOMAIN Stub |-> Stub[b].wit]
StubTrx      == [b \in DOMAIN Stub |-> Stub[b].trx]
StubNum      == NumIn(Stub)

\* The state at the end of each chain.
StateAt[b \in Ids] == IF b = Genesis THEN GenesisState ELSE AfterBlock(StateAt[Previous[b]], b)

ASSUME ForkedIsSettled ==
    Blocks = ForkedBlocks => SettledTree({StateAt[b] : b \in Ids})
=============================================================================
