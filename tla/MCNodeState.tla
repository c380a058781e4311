----------------------------- MODULE MCNodeState -----------------------------
EXTENDS NodeState

MCNames  == {"hyle", "A", "B", "D", "xA", "N"}
MCParent == [n \in MCNames |-> IF n = "xA" THEN "A" ELSE "hyle"]
MCNative == {"N"}

Contract(state, window) == [prog |-> 1, state |-> state, window |-> window]
MCGenesis ==
    [n \in MCNames \ {"D"} |->
       Contract(0, CASE n \in {"hyle", "N"} -> NoTimeout
                     [] n = "A" -> 2
                     [] OTHER -> 1)]

Action(type, name, c, nukes) ==
    [type |-> type, name |-> name, c |-> c, nukes |-> nukes]
CallAction == Action("Call", "hyle", Contract(0, Unset), <<>>)
On(c, a) == [contract |-> c, action |-> a, verifies |-> TRUE]
Call(c) == On(c, CallAction)
Register(name, window) == Action("Register", name, Contract(0, window), <<>>)
Delete(name) == Action("Delete", name, Contract(0, Unset), <<>>)
Program(name, prog) ==
    Action("UpdateProgramId", name, [Contract(0, Unset) EXCEPT !.prog = prog], <<>>)
SetWindow(name, w) == Action("UpdateTimeoutWindow", name, Contract(0, w), <<>>)

Proof(t, i, init, next) ==
    [tx |-> t, index |-> i, prog |-> 1, ctx |-> 0, init |-> init, next |-> next,
     success |-> TRUE, reads |-> {}, effects |-> <<>>, coherent |-> TRUE]
Failure(t, i, state) == [Proof(t, i, state, state) EXCEPT !.success = FALSE]
Nuke(outputs) == Action("Nuke", "hyle", Contract(0, Unset), outputs)

Batch(blobs, proofs) ==
    [blobs |-> blobs, valid |-> DOMAIN blobs, proofs |-> proofs]

\* Transactions over two contracts that wait for each other.
Cross ==
    Batch(<< <<Call("A"), Call("B")>>, <<Call("B")>>, <<Call("A"), Call("B")>> >>,
          {<<Proof(1, 1, 0, 1), Proof(1, 2, 0, 1)>>, <<Failure(2, 1, 0)>>,
           <<Proof(2, 1, 1, 2)>>, <<Proof(3, 1, 0, 1)>>, <<Proof(3, 2, 0, 2)>>})

\* A transaction that is first on one contract and not on the other.
Early ==
    Batch(<< <<Call("A")>>, <<Call("B")>>, <<Call("A"), Call("B")>> >>,
          {<<Proof(1, 1, 0, 1)>>, <<Proof(2, 1, 0, 1)>>, <<Failure(3, 1, 0)>>,
           <<Proof(3, 1, 1, 2), Proof(3, 2, 1, 2)>>})

\* Registration by the TLD with another blob, and a nuked transaction.
Tld ==
    Batch(<< <<On("hyle", Register("D", Unset)), Call("A")>>,
             <<On("hyle", Nuke(<<Failure(3, 2, 0), Failure(1, 2, 0)>>))>>,
             <<Call("B"), Call("A")>> >>,
          {<<Proof(1, 2, 0, 1)>>, <<Proof(3, 1, 0, 1)>>, <<Proof(3, 2, 1, 0)>>})

\* Deletion, registration and updates of contracts in use.
Names3 ==
    Batch(<< <<Call("A"), Call("B")>>, <<On("hyle", Delete("A"))>>, <<Call("B")>>,
             <<On("hyle", Register("A", 1))>> >>,
          {<<Proof(1, 1, 0, 1)>>, <<Proof(1, 2, 0, 1)>>, <<Proof(3, 1, 0, 1)>>})

\* Two proofs for one blob, a native blob, and a proof that reads a contract.
Native3 ==
    Batch(<< <<Call("N"), Call("A"), Call("A")>>,
             <<[Call("N") EXCEPT !.verifies = FALSE], Call("A")>>,
             <<Call("B")>> >>,
          {<<Proof(1, 2, 0, 1)>>, <<Proof(1, 2, 0, 2)>>, <<Proof(1, 3, 2, 1)>>,
           <<[Proof(3, 1, 0, 1) EXCEPT !.reads = {<<"A", 1>>}]>>})

\* A contract that registers and deletes its subdomain, program and window updates.
Sub ==
    Batch(<< <<On("A", Register("xA", Unset))>>, <<On("A", Delete("xA"))>>,
             <<Call("xA")>>,
             <<On("hyle", Program("A", 2)), On("hyle", SetWindow("A", NoTimeout))>> >>,
          {<<[Proof(1, 1, 0, 1) EXCEPT
                !.effects = <<[type |-> "Register", name |-> "xA",
                               c |-> Contract(0, Unset)]>>]>>,
           <<[Proof(2, 1, 1, 0) EXCEPT
                !.effects = <<[type |-> "Delete", name |-> "xA"]>>]>>,
           <<[Proof(2, 1, 1, 0) EXCEPT !.ctx = 1]>>,
           <<[Proof(2, 1, 1, 0) EXCEPT
                !.effects = <<[type |-> "Delete", name |-> "xA"]>>, !.ctx = 2]>>,
           <<Proof(3, 1, 0, 1)>>})

MCBatches ==
    [cross |-> Cross, early |-> Early, tld |-> Tld, names |-> Names3,
     native |-> Native3, sub |-> Sub]

\* One batch each for the two runs that show a disagreement.
MCEarly  == [early |-> Early]
MCNative3 == [native |-> Native3]
=============================================================================
