------------------------------ MODULE MCLedger ------------------------------
(***************************************************************************)
(* Small universes of blocks for Ledger.  Every universe gives the node    *)
(* more blocks than fit on its chains together: rivals of the same parent, *)
(* receives whose source may be rolled back, sends back and forth.         *)
(***************************************************************************)
EXTENDS Ledger, TLC

Plain(type, addr, prev, src, to, bal, rep) ==
    [type |-> type, addr |-> addr, token |-> "qlc", rep |-> rep, prev |-> prev,
     link |-> src, to |-> to, bal |-> bal, vote |-> 0, other |-> 0,
     amt |-> NoAmount, gain |-> 0]

GenesisOf(addr, bal) == Plain("ContractReward", addr, "zero", "zero", addr, bal, addr)
Send(addr, prev, to, bal, rep) == Plain("Send", addr, prev, "zero", to, bal, rep)
Receive(addr, prev, src, bal, rep) ==
    Plain("Receive", addr, prev, src, addr, bal, rep)
OpenOf(addr, src, bal, rep) == Plain("Open", addr, "zero", src, addr, bal, rep)
Change(addr, prev, bal, rep) == Plain("Change", addr, prev, "zero", addr, bal, rep)
Online(addr, prev, bal, rep) == Plain("Online", addr, prev, "zero", addr, bal, rep)

ContractSend(addr, prev, to, bal, amt, gain) ==
    [Plain("ContractSend", addr, prev, "zero", to, bal, "X")
        EXCEPT !.amt = amt, !.gain = gain]
Reward(addr, prev, src, bal, vote) ==
    [Plain("ContractReward", addr, prev, src, addr, bal, addr) EXCEPT !.vote = vote]

WithHeights(u) ==
    LET height[h \in DOMAIN u] ==
            IF u[h].prev = "zero" THEN 1 ELSE height[u[h].prev] + 1
    IN [h \in DOMAIN u |-> u[h] @@ ("height" :> height[h])]

\* Three accounts that own value already and send it around.  G's first block
\* has a rival to another receiver, A and B have rivals between receiving and
\* sending, and A's t2 comes back to G as u3, the rival of s3: rolling back s1
\* then reaches G's own chain again.
Transfers ==
       "g0"  :> GenesisOf("G", 4)
    @@ "s1"  :> Send("G", "g0", "A", 2, "G")        @@ "s1x" :> Send("G", "g0", "B", 3, "G")
    @@ "c2"  :> Change("G", "s1", 2, "A")           @@ "c2x" :> Change("G", "s1x", 3, "B")
    @@ "s3x" :> Send("G", "c2x", "A", 1, "B")
    @@ "s3"  :> Send("G", "c2", "B", 1, "A")        @@ "u3"  :> Receive("G", "c2", "t2", 4, "A")
    @@ "a0"  :> GenesisOf("A", 1)
    @@ "r1"  :> Receive("A", "a0", "s1", 3, "A")    @@ "v1"  :> Receive("A", "a0", "w1", 2, "A")
    @@ "t1"  :> Send("A", "a0", "B", 0, "A")        @@ "v2"  :> Receive("A", "t1", "w1", 1, "A")
    @@ "t2"  :> Send("A", "r1", "G", 1, "A")        @@ "c2a" :> Online("A", "v1", 2, "B")
    @@ "b0"  :> GenesisOf("B", 1)
    @@ "w1"  :> Send("B", "b0", "A", 0, "B")        @@ "q1"  :> Receive("B", "b0", "s1x", 2, "B")
    @@ "q1t" :> Receive("B", "b0", "t1", 2, "B")    @@ "w2"  :> Send("B", "q1", "A", 0, "B")
    @@ "q2"  :> Receive("B", "w1", "s3", 1, "B")    @@ "q2x" :> Receive("B", "w1", "s1x", 1, "B")

\* A third branch of G, with X as its representative: chains that are opened,
\* by an Open or by a contract reward, and removed again; pledges (p3, p4) turn
\* the sender's balance into votes of another account, and p3n is a call of a
\* contract that leaves nothing to receive.  Nothing changes the balance of a
\* chain that an Open started.
OpensAndContracts ==
       "x1"  :> Change("G", "g0", 4, "X")
    @@ "s2"  :> Send("G", "x1", "C", 3, "X")        @@ "s2x" :> Send("G", "x1", "D", 2, "X")
    @@ "p3"  :> ContractSend("G", "s2", "D", 2, 1, 1)
    @@ "p3n" :> ContractSend("G", "s2", "G", 3, NoAmount, 0)
    @@ "s3y" :> Send("G", "s2x", "C", 1, "X")       @@ "p4"  :> ContractSend("G", "p3", "C", 1, 1, 1)
    @@ "o1"  :> OpenOf("C", "s2", 1, "C")           @@ "o1x" :> OpenOf("C", "s3y", 1, "X")
    @@ "k2"  :> Change("C", "o1", 1, "X")           @@ "k2x" :> Online("C", "o1x", 1, "C")
    @@ "z2"  :> Reward("C", "o1", "p4", 1, 1)       @@ "z1c" :> Reward("C", "zero", "p4", 0, 1)
    @@ "z1"  :> Reward("D", "zero", "p3", 0, 1)     @@ "k1"  :> [Change("D", "z1", 0, "D") EXCEPT !.vote = 1]
    @@ "oc"  :> OpenOf("D", "s2x", 2, "D")          @@ "kc"  :> Change("D", "oc", 2, "X")

Universe == WithHeights(Transfers @@ OpensAndContracts)

\* A constant is given one of these, whose right-hand sides TLC evaluates once.
MCblk == Universe
MCBlock == DOMAIN Universe
MCGenesis == {"g0", "a0", "b0"}

\* The weights do not influence the rest of the ledger, and rolling back
\* contract blocks moves those of X, C and D without bound: states that differ
\* only in these are one state.
WithoutDrift ==
    <<blocks, child, link, header, openBlock, frontier, pending,
      [r \in {x \in Account : Steady(x)} |-> representation[r]]>>
=============================================================================
