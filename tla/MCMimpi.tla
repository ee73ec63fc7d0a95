------------------------------- MODULE MCMimpi -------------------------------
(* Four processes, so that process 1 has a parent and a child: groups of    *)
(* calls, the same one twice with other data, messages of two tags, mutual  *)
(* waits.                                                                   *)
EXTENDS Mimpi

send(q, t) == [call |-> "send", peer |-> q, tag |-> t]
recv(q, t) == [call |-> "recv", peer |-> q, tag |-> t]
barrier == [call |-> "barrier"]
bcast(r, d) == [call |-> "bcast", root |-> r, data |-> d]
reduce(r, op) == [call |-> "reduce", root |-> r, op |-> op,
                  data |-> [p \in Ranks |-> <<200, 3, 100, 50>>[p + 1]]]
Again(c) == [c EXCEPT !.data = [p \in Ranks |-> c.data[p] + 1]]

All(calls) == [p \in Ranks |-> calls]
Each(a, b, c) == [p \in Ranks |-> <<a, b, c, <<>>>>[p + 1]]

Groups ==
  {All(<<barrier, barrier>>),
   All(<<reduce(1, "SUM"), bcast(0, 7), barrier>>),
   All(<<bcast(2, 7), reduce(2, "MAX")>>),
   All(<<bcast(0, 5), barrier, reduce(0, "PROD")>>),
   All(<<reduce(0, "MIN"), barrier>>),
   All(<<bcast(0, 7), bcast(0, 5), bcast(1, 6)>>),
   All(<<reduce(0, "SUM"), Again(reduce(0, "SUM"))>>),
   Each(<<barrier, barrier>>, <<barrier, barrier>>, <<barrier>>)}

Talks ==
  {Each(<<send(1, 1), send(1, 2), send(1, 1)>>, <<recv(0, 2), recv(0, ANY), recv(0, 1)>>, <<>>),
   Each(<<send(1, 1), send(1, 1), recv(1, 3)>>, <<recv(0, 1), recv(0, 1), recv(2, ANY)>>,
        <<send(1, 5), send(2, 1), recv(4, 1)>>)}

Waits ==
  {Each(<<recv(1, 1), recv(1, 1)>>, <<recv(0, 1), send(0, 1)>>, <<>>),
   Each(<<recv(1, 1), recv(1, ANY)>>, <<send(0, 1), recv(0, 1), recv(0, 1)>>, <<>>),
   Each(<<recv(2, 1)>>, <<recv(0, 1)>>, <<recv(0, 1)>>)}

With(programs, d) == {[program |-> p, detection |-> d] : p \in programs}

MCSetups == With(Groups \cup Talks, FALSE) \cup With(Waits, TRUE)
=============================================================================
