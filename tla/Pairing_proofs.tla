--------------------------- MODULE Pairing_proofs ---------------------------
(***************************************************************************)
(* The configuration, the servers and the announcement files agree, for    *)
(* any number of tunnels, devices and processes, and whatever the relay    *)
(* answers, twice or late.                                                 *)
(*                                                                         *)
(* The heart of it: an answer never takes a tunnel from a process it is    *)
(* paired with, since that tunnel's server holds the local port.           *)
(***************************************************************************)
EXTENDS Pairing, SeqLemmas

(* A request for a port given by the configuration is one of its tunnels.  *)
Known(r) == r.local # 0 =>
  \E i \in Tunnels : device[i] = r.device /\ port[i] = r.port /\ local[i] = r.local

KnownRequest == {r \in Request : Known(r)}
KnownPacket  == {m \in Packet : m.type = "pair" => Known(m)}

ListTyped == tunnels \in Seq(Entry)

Tables == /\ pid \in [Tunnels -> Pid \cup {NULL}] /\ local \in [Tunnels -> Nat]
          /\ ListTyped /\ files \subseteq (Pid \X Nat)
          /\ PairedIsListening /\ ListeningIsPaired /\ FilesMatchPairs

Packets == asked \in Seq(KnownRequest) /\ inbox \in Seq(KnownPacket)

Others == /\ up \in BOOLEAN /\ stopping \in BOOLEAN
          /\ online \in [Device -> Pid \cup {NULL}] /\ fresh \subseteq Pid

PairingInv == Tables /\ Packets /\ Others

(* The ports that the kernel chose stay: what was known remains so. *)
PortsStay == \A i \in Tunnels : local[i] # 0 => local'[i] = local[i]
-----------------------------------------------------------------------------
(* The first of some tunnels. *)
LEMMA FirstProperties ==
  ASSUME NEW S \in SUBSET Tunnels
  PROVE  /\ S = {} => First(S) = {}
         /\ S # {} => \E i \in S : First(S) = {i}
<1>1. CASE S = {}
  BY <1>1 DEF First
<1>2. CASE S # {}
  <2>1. S \in SUBSET Nat
    BY PairingAssumption DEF Tunnels
  <2>2. \E i \in S : \A j \in S : i <= j
    BY <1>2, <2>1, MinOfNat
  <2>3. QED
    BY <1>2, <2>2 DEF First
<1>3. QED
  BY <1>1, <1>2

(* What a server listens on is a port, and what is linked is an entry. *)
LEMMA ServersTyped ==
  ASSUME ListTyped
  PROVE  /\ Range(tunnels) \subseteq Entry
         /\ \A t \in Servers : t \in Entry /\ t.listens \in Nat \ {0} /\ t.pid \in Pid
<1>1. Range(tunnels) \subseteq Entry
  BY LenProperties, ElementOfSeq DEF ListTyped, Range
<1>2. QED
  BY <1>1 DEF Servers, Entry

(* A tunnel that is paired has a local port, and a server holds it. *)
LEMMA PairedHoldsPort ==
  ASSUME Tables, NEW i \in Tunnels, pid[i] # NULL
  PROVE  local[i] # 0 /\ local[i] \in Listening /\ local[i] \in Nat
<1>1. PICK t \in Servers : t.listens = local[i]
  BY DEF Tables, PairedIsListening
<1>2. t.listens \in Nat \ {0}
  BY ServersTyped DEF Tables
<1>3. QED
  BY <1>1, <1>2 DEF Listening

(* What a process needs to be linked in front. *)
LEMMA LinkedInFront ==
  ASSUME ListTyped, NEW e \in Entry, tunnels' = Cons(e, tunnels)
  PROVE  /\ ListTyped'
         /\ e.listens # NULL => Servers' = Servers \cup {e}
         /\ e.listens = NULL => Servers' = Servers
<1>1. Cons(e, tunnels) \in Seq(Entry)
  BY ConsProperties DEF ListTyped
<1>2. Range(Cons(e, tunnels)) = {e} \cup Range(tunnels)
  BY RangeOfCons DEF ListTyped
<1>3. Servers' = {t \in Range(Cons(e, tunnels)) : t.listens # NULL}
  BY DEF Servers
<1>4. QED
  BY <1>1, <1>2, <1>3 DEF ListTyped, Servers
-----------------------------------------------------------------------------
(* An answer for a tunnel whose server is listening on p keeps the tables. *)
LEMMA PairedKeeps ==
  ASSUME Tables, NEW m \in Packet, m.type = "pair", Known(m), NEW p \in Bound(m.local), paired(m, p)
  PROVE  Tables' /\ PortsStay
<1> DEFINE a    == AnswerPort(m, p)
           mine == First(Answered(m, local', a))
           e    == [pid |-> m.pid, device |-> m.device, port_remote |-> m.port,
                    port_local |-> a, listens |-> p]
<1>1. m.pid \in Pid /\ m.device \in Device /\ m.port \in Nat /\ m.local \in Nat
  BY DEF Packet
<1>2. p \in Nat \ {0} /\ p \notin Listening /\ (m.local # 0 => p = m.local)
  BY <1>1, PairingAssumption DEF Bound
<1>3. local \in [Tunnels -> Nat] /\ pid \in [Tunnels -> Pid \cup {NULL}]
  BY DEF Tables
<1>4. /\ local' = Updated(m, p)
      /\ tunnels' = Cons(e, tunnels)
      /\ pid' = [i \in Tunnels |-> IF i \in mine THEN m.pid ELSE pid[i]]
      /\ files' = files \cup {<<m.pid, m.port>> : i \in mine}
  BY DEF paired
<1>5. Answered(m, local, 0) \in SUBSET Tunnels
  BY DEF Answered
<1>6. \A i \in Tunnels :
        \/ local'[i] = local[i]
        \/ m.local = 0 /\ local[i] = 0 /\ local'[i] = p /\ device[i] = m.device /\ port[i] = m.port
  BY <1>3, <1>4, <1>5, FirstProperties DEF Updated, Answered
<1>7. local' \in [Tunnels -> Nat] /\ PortsStay
  <2>1. local' \in [Tunnels -> Nat]
    BY <1>2, <1>3, <1>4 DEF Updated
  <2>2. PortsStay
    BY <1>6 DEF PortsStay
  <2>3. QED
    BY <2>1, <2>2
<1>8. Answered(m, local', a) \in SUBSET Tunnels
  BY DEF Answered
<1>9. \A i \in mine : /\ i \in Tunnels /\ device[i] = m.device /\ port[i] = m.port
                      /\ local'[i] = a
  BY <1>8, FirstProperties DEF Answered
<1>10. ASSUME mine # {} PROVE a = p
  <2>1. CASE m.local # 0
    BY <1>2, <2>1 DEF AnswerPort
  <2>2. CASE m.local = 0 /\ Answered(m, local, 0) # {}
    BY <2>2 DEF AnswerPort
  <2>3. CASE m.local = 0 /\ Answered(m, local, 0) = {}
    <3>1. a = 0
      BY <2>3 DEF AnswerPort
    <3>2. local' = local
      <4>1. First(Answered(m, local, 0)) = {}
        BY <2>3, <1>5, FirstProperties
      <4>2. QED
        BY <1>3, <1>4, <4>1 DEF Updated
    <3>3. QED
      BY <1>8, <1>10, <2>3, <3>1, <3>2, FirstProperties
  <2>4. QED
    BY <2>1, <2>2, <2>3
<1>11. \A i \in mine : pid[i] = NULL
  <2>1. SUFFICES ASSUME NEW i \in mine, pid[i] # NULL PROVE FALSE
    OBVIOUS
  <2>2. local[i] # 0 /\ local[i] \in Listening
    BY <1>9, <2>1, PairedHoldsPort
  <2>3. local'[i] = p
    BY <1>9, <1>10, <2>1
  <2>4. local'[i] = local[i]
    BY <1>6, <1>9, <2>2
  <2>5. QED
    BY <1>2, <2>2, <2>3, <2>4
<1>12. ASSUME a # 0 PROVE mine # {}
  <2>1. CASE m.local # 0
    <3>1. PICK i \in Tunnels : device[i] = m.device /\ port[i] = m.port /\ local[i] = m.local
      BY <2>1 DEF Known
    <3>2. a = m.local
      BY <2>1 DEF AnswerPort
    <3>3. i \in Answered(m, local', a)
      BY <1>6, <2>1, <3>1, <3>2 DEF Answered
    <3>4. QED
      BY <1>8, <3>3, FirstProperties
  <2>2. CASE m.local = 0
    <3>1. Answered(m, local, 0) # {} /\ a = p
      BY <1>12, <2>2 DEF AnswerPort
    <3>2. PICK i \in Answered(m, local, 0) : First(Answered(m, local, 0)) = {i}
      BY <1>5, <3>1, FirstProperties
    <3>3. local'[i] = p
      BY <1>4, <1>5, <2>2, <3>2 DEF Updated
    <3>4. i \in Answered(m, local', a)
      BY <3>1, <3>2, <3>3 DEF Answered
    <3>5. QED
      BY <1>8, <3>4, FirstProperties
  <2>3. QED
    BY <2>1, <2>2
<1>13. a \in Nat
  BY <1>1, <1>2 DEF AnswerPort
<1> HIDE DEF a, mine
<1>14. e \in Entry
  BY <1>1, <1>2, <1>13 DEF Entry
<1>15. ListTyped' /\ Servers' = Servers \cup {e}
  <2>1. e.listens # NULL
    BY <1>2, PairingAssumption
  <2>2. QED
    BY <1>4, <1>14, <2>1, LinkedInFront DEF Tables
<1>16. pid' \in [Tunnels -> Pid \cup {NULL}]
  BY <1>1, <1>3, <1>4
<1>17. PairedIsListening'
  <2>1. SUFFICES ASSUME NEW i \in Tunnels, pid'[i] # NULL
                 PROVE  \E t \in Servers' : /\ t.pid = pid'[i] /\ t.port_remote = port[i]
                                            /\ t.listens = local'[i]
    BY DEF PairedIsListening
  <2>2. CASE i \in mine
    BY <1>4, <1>9, <1>10, <1>15, <2>2
  <2>3. CASE i \notin mine
    <3>1. pid'[i] = pid[i]
      BY <1>4, <2>3
    <3>2. PICK t \in Servers : /\ t.pid = pid[i] /\ t.port_remote = port[i]
                               /\ t.listens = local[i]
      BY <2>1, <3>1 DEF Tables, PairedIsListening
    <3>3. local'[i] = local[i]
      BY <1>7, <2>1, <3>1, PairedHoldsPort DEF PortsStay
    <3>4. QED
      BY <1>15, <3>1, <3>2, <3>3
  <2>4. QED
    BY <2>2, <2>3
<1>18. ListeningIsPaired'
  <2>1. SUFFICES ASSUME NEW t \in Servers', t.port_local # 0
                 PROVE  \E i \in Tunnels : /\ pid'[i] = t.pid /\ port[i] = t.port_remote
                                           /\ local'[i] = t.listens
    BY DEF ListeningIsPaired
  <2>2. CASE t = e
    <3>1. PICK i \in mine : TRUE
      BY <1>12, <2>1, <2>2
    <3>2. pid'[i] = m.pid /\ local'[i] = p
      BY <1>4, <1>9, <1>10, <3>1
    <3>3. QED
      BY <1>9, <2>2, <3>1, <3>2
  <2>3. CASE t \in Servers
    <3>1. PICK i \in Tunnels : pid[i] = t.pid /\ port[i] = t.port_remote /\ local[i] = t.listens
      BY <2>1, <2>3 DEF Tables, ListeningIsPaired
    <3>2. t.pid \in Pid /\ t.listens # 0
      BY <2>3, ServersTyped DEF Tables
    <3>3. i \notin mine
      BY <1>11, <3>1, <3>2, PairingAssumption
    <3>4. pid'[i] = pid[i] /\ local'[i] = local[i]
      BY <1>4, <1>7, <3>1, <3>2, <3>3 DEF PortsStay
    <3>5. QED
      BY <3>1, <3>4
  <2>4. QED
    BY <1>15, <2>1, <2>2, <2>3
<1>19. FilesMatchPairs' /\ (files \subseteq (Pid \X Nat))'
  <2>1. files = {<<pid[i], port[i]>> : i \in {j \in Tunnels : pid[j] # NULL}}
    BY DEF Tables, FilesMatchPairs, Unpaired
  <2>2. \A i \in Tunnels : pid'[i] # NULL <=> i \in mine \/ pid[i] # NULL
    BY <1>1, <1>4, PairingAssumption
  <2>3. \A i \in Tunnels : i \in mine => <<pid'[i], port[i]>> = <<m.pid, m.port>>
    BY <1>4, <1>9
  <2>4. \A i \in Tunnels : pid[i] # NULL => <<pid'[i], port[i]>> = <<pid[i], port[i]>>
    BY <1>4, <1>11
  <2>5. files' = {<<pid'[i], port[i]>> : i \in {j \in Tunnels : pid'[j] # NULL}}
    <3> DEFINE New == {<<pid'[i], port[i]>> : i \in {j \in Tunnels : pid'[j] # NULL}}
    <3>1. ASSUME NEW f \in files' PROVE f \in New
      <4>1. f \in files \/ \E i \in mine : f = <<m.pid, m.port>>
        BY <1>4, <3>1
      <4>2. CASE f \in files
        BY <2>1, <2>2, <2>4, <4>2
      <4>3. CASE \E i \in mine : f = <<m.pid, m.port>>
        BY <1>9, <2>2, <2>3, <4>3
      <4>4. QED
        BY <4>1, <4>2, <4>3
    <3>2. ASSUME NEW i \in Tunnels, pid'[i] # NULL PROVE <<pid'[i], port[i]>> \in files'
      <4>1. CASE i \in mine
        BY <1>4, <2>3, <4>1
      <4>2. CASE i \notin mine
        <5>1. <<pid'[i], port[i]>> \in files
          BY <2>1, <2>2, <2>4, <3>2, <4>2
        <5>2. QED
          BY <1>4, <5>1
      <4>3. QED
        BY <4>1, <4>2
    <3>3. QED
      BY <3>1, <3>2
  <2>6. files' \subseteq (Pid \X Nat)
    BY <1>1, <1>4 DEF Tables
  <2>7. QED
    BY <2>5, <2>6 DEF FilesMatchPairs, Unpaired
<1>20. QED
  BY <1>7, <1>15, <1>16, <1>17, <1>18, <1>19 DEF Tables

(* So does every answer, and every failure to listen. *)
LEMMA ReplyKeeps ==
  ASSUME Tables, NEW m \in KnownPacket, m.type \in {"pair", "forced"}, device_pair_reply(m)
  PROVE  Tables' /\ PortsStay /\ stopping' \in {stopping, TRUE}
<1>1. CASE m.type = "pair" /\ \E p \in Bound(m.local) : paired(m, p)
  <2>1. PICK p \in Bound(m.local) : paired(m, p)
    BY <1>1
  <2>2. stopping' = stopping
    BY <2>1 DEF paired
  <2>3. QED
    BY <1>1, <2>1, <2>2, PairedKeeps DEF KnownPacket
<1>2. CASE stopping' = TRUE /\ UNCHANGED config
  <2>1. UNCHANGED <<pid, local, tunnels, files>>
    BY <1>2 DEF config
  <2>2. Tables'
    BY <2>1 DEF Tables, ListTyped, PairedIsListening, ListeningIsPaired, FilesMatchPairs,
                Unpaired, Servers
  <2>3. QED
    BY <1>2, <2>1, <2>2 DEF PortsStay
<1>3. CASE /\ m.type = "forced" /\ UNCHANGED <<pid, local, files, stopping>>
           /\ tunnels' = Cons([pid |-> m.pid, device |-> m.device, port_remote |-> m.port,
                               port_local |-> m.local, listens |-> NULL], tunnels)
  <2> DEFINE e == [pid |-> m.pid, device |-> m.device, port_remote |-> m.port,
                   port_local |-> m.local, listens |-> NULL]
  <2>1. e \in Entry
    BY <1>3 DEF KnownPacket, Packet, Entry
  <2>2. ListTyped' /\ Servers' = Servers
    BY <1>3, <2>1, LinkedInFront DEF Tables
  <2>3. QED
    BY <1>3, <2>2 DEF Tables, PairedIsListening, ListeningIsPaired, FilesMatchPairs, Unpaired,
                      PortsStay
<1>4. QED
  BY <1>1, <1>2, <1>3 DEF device_pair_reply

(* The news that a process is offline takes its tunnels and its files,     *)
(* whichever port the files are looked for by.                             *)
LEMMA OfflineKeeps ==
  ASSUME Tables, NEW p \in Pid, cloud_offline(p)
  PROVE  Tables' /\ PortsStay /\ stopping' = stopping
<1> DEFINE stopped == {t \in Range(tunnels) : t.pid = p}
<1>1. /\ pid' = [i \in Tunnels |-> IF pid[i] = p THEN NULL ELSE pid[i]]
      /\ tunnels' = Among(tunnels, Range(tunnels) \ stopped)
      /\ files' = (files \ {<<p, local[i]>> : i \in {j \in Tunnels : pid[j] = p}})
                     \ {<<t.pid, t.port_remote>> : t \in stopped}
      /\ local' = local /\ stopping' = stopping
  BY DEF cloud_offline, Offline, Stops, FileOf
<1>2. ListTyped' /\ Range(tunnels') = Range(tunnels) \ stopped
  BY <1>1, AmongProperties DEF Tables, ListTyped
<1>3. Servers' = {t \in Servers : t.pid # p}
  BY <1>2 DEF Servers
<1>4. /\ pid \in [Tunnels -> Pid \cup {NULL}]
      /\ pid' \in [Tunnels -> Pid \cup {NULL}]
      /\ \A i \in Tunnels : pid'[i] # NULL <=> pid[i] # NULL /\ pid[i] # p
      /\ \A i \in Tunnels : pid'[i] # NULL => pid'[i] = pid[i]
  BY <1>1, PairingAssumption DEF Tables
<1>5. PairedIsListening'
  BY <1>1, <1>3, <1>4 DEF Tables, PairedIsListening
<1>6. ListeningIsPaired'
  <2>1. SUFFICES ASSUME NEW t \in Servers', t.port_local # 0
                 PROVE  \E i \in Tunnels : /\ pid'[i] = t.pid /\ port[i] = t.port_remote
                                           /\ local'[i] = t.listens
    BY DEF ListeningIsPaired
  <2>2. t \in Servers /\ t.pid # p
    BY <1>3, <2>1
  <2>3. PICK i \in Tunnels : pid[i] = t.pid /\ port[i] = t.port_remote /\ local[i] = t.listens
    BY <2>1, <2>2 DEF Tables, ListeningIsPaired
  <2>4. QED
    BY <1>1, <2>2, <2>3
<1>7. FilesMatchPairs' /\ (files \subseteq (Pid \X Nat))'
  <2>1. files = {<<pid[i], port[i]>> : i \in {j \in Tunnels : pid[j] # NULL}}
    BY DEF Tables, FilesMatchPairs, Unpaired
  <2>2. \A i \in Tunnels : pid[i] = p => <<p, port[i]>> \notin files'
    <3>1. SUFFICES ASSUME NEW i \in Tunnels, pid[i] = p PROVE <<p, port[i]>> \notin files'
      OBVIOUS
    <3>2. PICK t \in Servers : t.pid = p /\ t.port_remote = port[i]
      BY <3>1, PairingAssumption DEF Tables, PairedIsListening
    <3>3. t \in stopped
      BY <3>2 DEF Servers
    <3>4. QED
      BY <1>1, <3>2, <3>3
  <2>3. \A i \in Tunnels : pid[i] # NULL /\ pid[i] # p => <<pid[i], port[i]>> \in files'
    BY <1>1, <2>1
  <2>4. files' \subseteq files
    BY <1>1
  <2>5. files' = {<<pid'[i], port[i]>> : i \in {j \in Tunnels : pid'[j] # NULL}}
    BY <1>4, <2>1, <2>2, <2>3, <2>4
  <2>6. QED
    BY <2>4, <2>5 DEF Tables, FilesMatchPairs, Unpaired
<1>8. QED
  BY <1>1, <1>2, <1>4, <1>5, <1>6, <1>7 DEF Tables, PortsStay

(* The loss of the relay takes all of them. *)
LEMMA LossKeeps ==
  ASSUME Tables, upstream_error
  PROVE  Tables' /\ PortsStay
<1>1. /\ pid' = [i \in Tunnels |-> NULL] /\ tunnels' = <<>> /\ local' = local
      /\ files' \subseteq files \ {<<t.pid, t.port_remote>> : t \in Range(tunnels)}
  BY DEF upstream_error, FileOf
<1>2. files' = {}
  <2>1. \A i \in Tunnels : pid[i] # NULL =>
          \E t \in Range(tunnels) : t.pid = pid[i] /\ t.port_remote = port[i]
    BY DEF Tables, PairedIsListening, Servers
  <2>2. \A f \in files : \E t \in Range(tunnels) : f = <<t.pid, t.port_remote>>
    BY <2>1 DEF Tables, FilesMatchPairs, Unpaired
  <2>3. QED
    BY <1>1, <2>2
<1>3. ListTyped' /\ Servers' = {}
  BY <1>1, EmptySeq DEF ListTyped, Servers, Range
<1>4. QED
  BY <1>1, <1>2, <1>3 DEF Tables, PairedIsListening, ListeningIsPaired, FilesMatchPairs,
                          Unpaired, PortsStay
-----------------------------------------------------------------------------
(* A sequence over a set is one over a larger set. *)
LEMMA SeqGrows ==
  ASSUME NEW A, NEW B, A \subseteq B, NEW s \in Seq(A)
  PROVE  s \in Seq(B)
<1>1. Len(s) \in Nat /\ s \in [1..Len(s) -> A]
  BY LenProperties
<1>2. s \in [1..Len(s) -> B]
  BY <1>1
<1>3. QED
  BY <1>1, <1>2

(* What is under way stays known when the ports stay. *)
LEMMA KnownStays ==
  ASSUME PortsStay
  PROVE  /\ \A s \in Seq(KnownRequest) : s \in Seq(KnownRequest')
         /\ \A s \in Seq(KnownPacket) : s \in Seq(KnownPacket')
<1>1. \A r : Known(r) => Known(r)'
  BY DEF PortsStay, Known
<1>2. KnownRequest \subseteq KnownRequest' /\ KnownPacket \subseteq KnownPacket'
  BY <1>1 DEF KnownRequest, KnownPacket
<1>3. QED
  BY <1>2, SeqGrows

(* Steps that leave the ports alone leave what is known as it is. *)
LEMMA KnownUnchanged ==
  ASSUME local' = local
  PROVE  KnownRequest' = KnownRequest /\ KnownPacket' = KnownPacket
BY DEF KnownRequest, KnownPacket, Known

(* What the pair timer sends asks for tunnels of the configuration. *)
LEMMA AsksKnown ==
  ASSUME Tables, Packets, devices_pair
  PROVE  asked' \in Seq(KnownRequest)
<1> DEFINE every == [i \in Tunnels |-> i]
           order == Among(every, Unpaired)
           ask(i) == [device |-> device[i], port |-> port[i], local |-> local[i]]
           new == [k \in DOMAIN order |-> ask(order[k])]
<1>1. every \in Seq(Tunnels)
  BY PairingAssumption DEF Tunnels
<1>2. order \in Seq(Tunnels)
  BY <1>1, AmongProperties
<1>3. \A i \in Tunnels : ask(i) \in KnownRequest
  BY PairingAssumption DEF Tables, KnownRequest, Request, Known
<1>4. asked' = asked \o new
  BY DEF devices_pair
<1> HIDE DEF ask, order
<1>5. Len(order) \in Nat /\ DOMAIN order = 1..Len(order)
      /\ \A k \in 1..Len(order) : order[k] \in Tunnels
  BY <1>2, LenProperties, ElementOfSeq
<1>6. new \in [1..Len(order) -> KnownRequest]
  BY <1>3, <1>5
<1>7. new \in Seq(KnownRequest)
  BY <1>5, <1>6
<1>8. QED
  BY <1>4, <1>7, ConcatProperties DEF Packets
-----------------------------------------------------------------------------
(* Nothing is paired at first. *)
LEMMA PairingInit == ASSUME Init PROVE PairingInv
<1>1. tunnels = <<>> /\ asked = <<>> /\ inbox = <<>>
  BY DEF Init
<1>2. ListTyped /\ Servers = {} /\ Packets
  BY <1>1, EmptySeq DEF ListTyped, Servers, Range, Packets
<1>3. Tables
  BY <1>2, PairingAssumption DEF Init, Tables, PairedIsListening, ListeningIsPaired,
                                FilesMatchPairs, Unpaired
<1>4. QED
  BY <1>2, <1>3 DEF Init, PairingInv, Others

(* Steps of the relay and of others leave the tables alone. *)
LEMMA TablesUnchanged ==
  ASSUME Tables, UNCHANGED config
  PROVE  Tables' /\ local' = local
<1>1. UNCHANGED <<pid, local, tunnels, files>>
  BY DEF config
<1>2. QED
  BY <1>1 DEF Tables, ListTyped, PairedIsListening, ListeningIsPaired, FilesMatchPairs,
              Unpaired, Servers

(* A step keeps the tables and what is under way. *)
LEMMA PairingStep == ASSUME PairingInv, [Next]_vars PROVE PairingInv'
<1> USE DEF PairingInv
<1>1. CASE client_logged
  BY <1>1, TablesUnchanged, KnownUnchanged DEF client_logged, relay, world, Packets, Others
<1>2. CASE devices_pair
  <2>1. /\ UNCHANGED config /\ inbox' = inbox
        /\ UNCHANGED <<up, stopping, online, fresh>>
    BY <1>2 DEF devices_pair, world
  <2>2. QED
    BY <1>2, <2>1, TablesUnchanged, KnownUnchanged, AsksKnown DEF Packets, Others
<1>3. CASE callback_data
  <2> DEFINE m == Head(inbox)
  <2>1. /\ inbox # <<>> /\ inbox' = Tail(inbox) /\ asked' = asked
        /\ UNCHANGED <<up, online, fresh>>
    BY <1>3 DEF callback_data, world
  <2>2. m \in KnownPacket /\ Tail(inbox) \in Seq(KnownPacket)
    BY <2>1, HeadTailProperties DEF Packets
  <2>3. \/ m.type \in {"pair", "forced"} /\ device_pair_reply(m)
        \/ m.type = "offline" /\ cloud_offline(m.pid)
    BY <1>3 DEF callback_data
  <2> HIDE DEF m
  <2>4. Tables' /\ PortsStay /\ stopping' \in {stopping, TRUE}
    <3>1. CASE m.type \in {"pair", "forced"} /\ device_pair_reply(m)
      BY <2>2, <3>1, ReplyKeeps
    <3>2. CASE m.type = "offline" /\ cloud_offline(m.pid)
      <4>1. m.pid \in Pid
        BY <2>2, <3>2 DEF KnownPacket, Packet
      <4>2. QED
        BY <3>2, <4>1, OfflineKeeps
    <3>3. QED
      BY <2>3, <3>1, <3>2
  <2>5. Packets'
    BY <2>1, <2>2, <2>4, KnownStays DEF Packets
  <2>6. QED
    BY <2>1, <2>4, <2>5 DEF Others
<1>4. CASE upstream_error
  <2>1. asked' = <<>> /\ inbox' = <<>> /\ up' = FALSE /\ UNCHANGED <<stopping, online, fresh>>
    BY <1>4 DEF upstream_error, world
  <2>2. Packets'
    BY <2>1, EmptySeq DEF Packets
  <2>3. QED
    BY <1>4, <2>1, <2>2, LossKeeps DEF Others
<1>5. CASE RelayAnswers
  <2> DEFINE r == Head(asked)
             answer == [type |-> "pair", pid |-> online[r.device], device |-> r.device,
                        port |-> r.port, local |-> r.local]
  <2>1. /\ UNCHANGED config /\ UNCHANGED <<up, stopping, online, fresh>>
        /\ asked # <<>> /\ asked' = Tail(asked)
        /\ inbox' = IF online[r.device] = NULL THEN inbox ELSE Append(inbox, answer)
    BY <1>5 DEF RelayAnswers, world
  <2>2. r \in KnownRequest /\ Tail(asked) \in Seq(KnownRequest)
    BY <2>1, HeadTailProperties DEF Packets
  <2>3. ASSUME online[r.device] # NULL PROVE answer \in KnownPacket
    <3>1. answer \in Packet
      BY <2>2, <2>3 DEF KnownRequest, Request, Packet, Others
    <3>2. Known(answer)
      BY <2>2 DEF KnownRequest, Known
    <3>3. QED
      BY <3>1, <3>2 DEF KnownPacket
  <2> HIDE DEF answer, r
  <2>4. inbox' \in Seq(KnownPacket)
    BY <2>1, <2>3, AppendProperties DEF Packets
  <2>5. QED
    BY <2>1, <2>2, <2>4, TablesUnchanged, KnownUnchanged DEF Packets, Others
<1>6. ASSUME NEW d \in Device, RelayForces(d) PROVE PairingInv'
  <2> DEFINE news == [type |-> "forced", pid |-> online[d], device |-> d, port |-> port[1],
                      local |-> port_local[1]]
  <2>1. /\ UNCHANGED config /\ UNCHANGED <<up, stopping, online, fresh, asked>>
        /\ online[d] # NULL /\ 1 \in Tunnels /\ inbox' = Append(inbox, news)
    BY <1>6, PairingAssumption DEF RelayForces, world, Tunnels
  <2>2. news \in KnownPacket
    BY <2>1, PairingAssumption DEF Others, Packet, KnownPacket
  <2> HIDE DEF news
  <2>3. QED
    BY <2>1, <2>2, AppendProperties, TablesUnchanged, KnownUnchanged DEF Packets, Others
<1>7. ASSUME NEW d \in Device, Starts(d) PROVE PairingInv'
  BY <1>7, TablesUnchanged, KnownUnchanged DEF Starts, relay, Packets, Others
<1>8. ASSUME NEW d \in Device, Ends(d) PROVE PairingInv'
  <2> DEFINE news == [type |-> "offline", pid |-> online[d]]
  <2>1. /\ UNCHANGED config /\ UNCHANGED <<up, stopping, fresh, asked>>
        /\ online[d] # NULL /\ inbox' \in {inbox, Append(inbox, news)}
        /\ online' = [online EXCEPT ![d] = NULL]
    BY <1>8 DEF Ends
  <2>2. news \in KnownPacket
    BY <2>1 DEF Others, Packet, KnownPacket
  <2> HIDE DEF news
  <2>3. inbox' \in Seq(KnownPacket)
    BY <2>1, <2>2, AppendProperties DEF Packets
  <2>4. QED
    BY <2>1, <2>3, TablesUnchanged, KnownUnchanged DEF Packets, Others
<1>9. CASE UNCHANGED vars
  BY <1>9, TablesUnchanged, KnownUnchanged DEF vars, relay, world, Packets, Others
<1>10. QED
  BY <1>1, <1>2, <1>3, <1>4, <1>5, <1>6, <1>7, <1>8, <1>9 DEF Next
-----------------------------------------------------------------------------
(* The configuration, the servers, the files and what is under way agree   *)
(* at every moment.                                                        *)
THEOREM PairingCorrect == Spec => []PairingInv
  BY PairingInit, PairingStep, PTL DEF Spec

(* A configured tunnel that has a process has a server for it on its port. *)
THEOREM PairedListens == Spec => []PairedIsListening
  BY PairingCorrect, PTL DEF PairingInv, Tables

(* Every server belongs to a configured tunnel that has its process, but   *)
(* for those that a second answer makes on a port the kernel chose.        *)
THEOREM ListeningPaired == Spec => []ListeningIsPaired
  BY PairingCorrect, PTL DEF PairingInv, Tables

(* There is a file for each tunnel that is paired, and none for another,   *)
(* though two places remove files and name them by different ports.        *)
THEOREM FilesAnnouncePairs == Spec => []FilesMatchPairs
  BY PairingCorrect, PTL DEF PairingInv, Tables
=============================================================================
