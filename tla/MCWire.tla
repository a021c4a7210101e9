------------------------------- MODULE MCWire -------------------------------
(***************************************************************************)
(* Packets for Wire: one of every type, with fields of zero to two bytes,  *)
(* and those of whose fields something more is read.                       *)
(***************************************************************************)
EXTENDS Wire

\* A field in the place i of its packet
Field(i) == SubSeq(<<200 + i, i>>, 1, i % 3)

Header == <<65, 66, Slash, 67, Slash, Slash, 68, 69>>

Pair(i) == [pid |-> <<i>>, device |-> <<i, i>>, port_local |-> <<>>, port_remote |-> <<i>>]

Traffic(i) == [type |-> <<i>>, cloud |-> <<>>, device |-> <<i, i>>, upload |-> <<i>>,
               download |-> <<>>]

SomePairLists == {<<>>, <<Pair(9)>>}
SomeReports   == {<<>>, <<Traffic(5), Traffic(6)>>}

Sample(t) ==
  [type |-> t,
   u |-> [f \in ToSet(Written[t]) |->
            CASE f = "error" -> Text("ok")
              [] f = "tp"    -> Header
              [] f = "list" /\ t = "DEVICE_PAIR_REPLY" -> ListOf(PairFields, <<Pair(9)>>)
              [] f = "list" /\ t = "TRAFFIC_GET_REPLY" ->
                   ListOf(TrafficFields, <<Traffic(5), Traffic(6)>>)
              [] OTHER -> Field(CHOOSE i \in DOMAIN Written[t] : Written[t][i] = f)]]

With(t, f, value) == [Sample(t) EXCEPT !.u[f] = value]

SomePackets ==
  {Sample(Types[i]) : i \in DOMAIN Types}
    \cup {With("TRAFFIC_GET_REPLY", "list", <<>>), With("DEVICE_PAIR_REPLY", "list", <<>>),
          With("MESSAGE_FROM", "body", <<>>), With("MESSAGE_FROM", "tp", <<>>),
          With("TRAFFIC_GET_REPLY", "error", Text("empty"))}

SomeFollowers == {Sample("PING_SET"), Sample("MESSAGE_TO"), Sample("ACCOUNT_SET")}

Few == {1, 5}
=============================================================================
