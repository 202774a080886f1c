----------------------------- MODULE MCProcess -----------------------------
(* Small instances of Process for TLC. *)
EXTENDS Process

Direct == [src |-> <<22, 63, 229>>, dst |-> <<30, 31, 32>>, group |-> NoGroup, ack |-> FALSE,
           bcast |-> FALSE, cmd1 |-> 47, cmd2 |-> 255, data |-> <<>>, maxHops |-> 3]
Query  == [Direct EXCEPT !.cmd2 = 0, !.data = <<1, 0, 0, 15, 255, 0, 0, 0, 0, 0, 0, 0, 0>>]
Reply  == [Direct EXCEPT !.src = Direct.dst, !.dst = Direct.src, !.ack = TRUE, !.maxHops = 2]
Press  == [Direct EXCEPT !.group = 1, !.bcast = TRUE, !.cmd1 = 17, !.cmd2 = 0]
AllOn  == [Press EXCEPT !.group = 0]
Odd    == [Press EXCEPT !.group = 77]

Sending(m, h) == [message |-> m, hops |-> h]
Receives(copies) == [copies |-> copies, inverted |-> TRUE, lead |-> <<>>, off |-> NoIndex,
                  struck |-> {}, cut |-> 5000]
First(m) == Receives(<<Sending(m, m.maxHops)>>)
Burst2(m, h, n, k) == Receives(<<Sending(m, h), Sending(n, k)>>)

MCClean ==
  << First(Direct), First(Query), First(Reply), First(Press), First(AllOn), First(Odd),
     Burst2(AllOn, 3, AllOn, 2), Burst2(Query, 0, Reply, 2) >>

Noise == <<1, 1, 0, 0, 1, 1, 1, 0, 1, 0, 1, 0>>
Shifted(m, lead) == << [First(m) EXCEPT !.lead = lead], [First(m) EXCEPT !.lead = lead, !.inverted = FALSE] >>
Located(m, off) == << [First(m) EXCEPT !.off = off], [First(m) EXCEPT !.off = off, !.inverted = FALSE] >>
Cut(n) == [Burst2(Press, 3, Press, 2) EXCEPT !.cut = n]
Struck1(m, s) == [First(m) EXCEPT !.struck = {s}]
Struck2(m, s, t) == [First(m) EXCEPT !.struck = {s, t}]

MCDamaged ==
  Shifted(Press, <<1>>) \o Shifted(Press, Noise) \o Shifted(Query, Noise)
  \o Located(Reply, 0) \o Located(AllOn, -4) \o Located(AllOn, 2)
  \o << Cut(250), Cut(284), Cut(285), Cut(330), Cut(764), Cut(765), Cut(800) >>
  \o [s \in 1..300 |-> Struck1(Direct, s - 1)]
  \o << Struck1(Query, 17), Struck1(Query, 23), Struck1(Query, 24), Struck1(Query, 40),
        Struck1(Query, 500), Struck1(Query, 676), Struck1(Query, 677), Struck1(Query, 700) >>
  \o [s \in 1..40 |-> Struck2(Reply, 43 + ((s - 1) \div 10), 80 + ((s - 1) % 10))]

MCNone == <<>>

\* SDR bursts with one wrong symbol in the header the correlator located.
MCLocated == [s \in 1..16 |-> [First(Press) EXCEPT !.off = 0, !.struck = {s - 1}]]
=============================================================================
