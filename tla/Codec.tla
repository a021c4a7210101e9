-------------------------------- MODULE Codec --------------------------------
(***************************************************************************)
(* proto.c, and what gcapi.c and utils.c read out of the fields of a       *)
(* packet.  A string (sn) is the sequence of its bytes, and the literals   *)
(* of the code are one byte each.  A packet is its type and its fields.    *)
(***************************************************************************)
EXTENDS Integers, Lists

CONSTANTS Word,  \* sizeof(int)
          Base   \* how many values a byte has

ASSUME CodecAssumption == Word \in Nat \ {0, 1} /\ Base \in Nat \ {0, 1}

GCPROTO_VERSION == 1

(* enum proto_e, in its order. *)
Types == <<"MESSAGE_TO", "MESSAGE_TO_SET_REPLY", "PING_SET", "PONG_SET",
           "ACCOUNT_LIST", "ACCOUNT_LIST_REPLY", "TRAFFIC_MI", "TRAFFIC_GET",
           "TRAFFIC_GET_REPLY", "MESSAGE_FROM", "DEVICE_PAIR", "DEVICE_PAIR_REPLY",
           "OFFLINE_SET", "ACCOUNT_SET", "ACCOUNT_SET_REPLY", "ACCOUNT_GET",
           "ACCOUNT_LOGIN", "ACCOUNT_LOGIN_REPLY", "ACCOUNT_DATA_SET",
           "ACCOUNT_DATA_SET_REPLY", "ACCOUNT_EXISTS", "ACCOUNT_EXISTS_REPLY",
           "VERSION_MISMATCH", "CLIENT_STOP_SET">>

(* The number of a type, from 0. *)
TypeNumber(t) == (CHOOSE i \in DOMAIN Types : Types[i] = t) - 1

(* The fields of a type, as gc_serialize() appends them. *)
Written == [
  MESSAGE_TO             |-> <<"to", "address", "tp", "body">>,
  MESSAGE_TO_SET_REPLY   |-> <<"error">>,
  PING_SET               |-> <<>>,
  PONG_SET               |-> <<>>,
  ACCOUNT_LIST           |-> <<>>,
  ACCOUNT_LIST_REPLY     |-> <<"error", "list">>,
  TRAFFIC_MI             |-> <<>>,
  TRAFFIC_GET            |-> <<>>,
  TRAFFIC_GET_REPLY      |-> <<"list", "error">>,
  MESSAGE_FROM           |-> <<"from_cloud", "from_device", "from_address", "tp", "body">>,
  DEVICE_PAIR            |-> <<"cloud", "device", "local_port", "remote_port">>,
  DEVICE_PAIR_REPLY      |-> <<"cloud", "error", "list", "type">>,
  OFFLINE_SET            |-> <<"address", "cloud", "device">>,
  ACCOUNT_SET            |-> <<"email", "password">>,
  ACCOUNT_SET_REPLY      |-> <<"error">>,
  ACCOUNT_GET            |-> <<>>,
  ACCOUNT_LOGIN          |-> <<"email", "password", "devname">>,
  ACCOUNT_LOGIN_REPLY    |-> <<"error", "data">>,
  ACCOUNT_DATA_SET       |-> <<"email", "password", "data">>,
  ACCOUNT_DATA_SET_REPLY |-> <<"error">>,
  ACCOUNT_EXISTS         |-> <<"email", "password">>,
  ACCOUNT_EXISTS_REPLY   |-> <<"error", "data">>,
  VERSION_MISMATCH       |-> <<"master", "slave">>,
  CLIENT_STOP_SET        |-> <<"address", "cloud", "device">>]

(* The fields of a type, as gc_deserialize() takes them. *)
Taken == [
  MESSAGE_TO             |-> <<"to", "address", "tp", "body">>,
  MESSAGE_TO_SET_REPLY   |-> <<"error">>,
  PING_SET               |-> <<>>,
  PONG_SET               |-> <<>>,
  ACCOUNT_LIST           |-> <<>>,
  ACCOUNT_LIST_REPLY     |-> <<"error", "list">>,
  TRAFFIC_MI             |-> <<>>,
  TRAFFIC_GET            |-> <<>>,
  TRAFFIC_GET_REPLY      |-> <<"list", "error">>,
  MESSAGE_FROM           |-> <<"from_cloud", "from_device", "from_address", "tp", "body">>,
  DEVICE_PAIR            |-> <<"cloud", "device", "local_port", "remote_port">>,
  DEVICE_PAIR_REPLY      |-> <<"cloud", "error", "list", "type">>,
  OFFLINE_SET            |-> <<"address", "cloud", "device">>,
  ACCOUNT_SET            |-> <<"email", "password">>,
  ACCOUNT_SET_REPLY      |-> <<"error">>,
  ACCOUNT_GET            |-> <<>>,
  ACCOUNT_LOGIN          |-> <<"email", "password", "devname">>,
  ACCOUNT_LOGIN_REPLY    |-> <<"error", "data">>,
  ACCOUNT_DATA_SET       |-> <<"email", "password", "data">>,
  ACCOUNT_DATA_SET_REPLY |-> <<"error">>,
  ACCOUNT_EXISTS         |-> <<"email", "password">>,
  ACCOUNT_EXISTS_REPLY   |-> <<"error", "data">>,
  VERSION_MISMATCH       |-> <<"master", "slave">>,
  CLIENT_STOP_SET        |-> <<"address", "cloud", "device">>]

(* The values of "error" that gc_serialize() names. *)
Errors == [
  MESSAGE_TO_SET_REPLY   |-> {"ok", "ok_registered", "login", "enoexists", "general_failure"},
  ACCOUNT_LIST_REPLY     |-> {"ok", "general_failure"},
  TRAFFIC_GET_REPLY      |-> {"ok", "ok_partial", "login", "general_failure", "denied", "empty"},
  DEVICE_PAIR_REPLY      |-> {"ok", "ok_registered", "login", "general_failure"},
  ACCOUNT_SET_REPLY      |-> {"ok", "denied", "already_exists", "general_failure"},
  ACCOUNT_LOGIN_REPLY    |-> {"ok", "ok_registered", "version", "try_again", "invalid_login",
                              "general_failure", "already_logged"},
  ACCOUNT_DATA_SET_REPLY |-> {"ok", "ok_registered", "invalid_login", "version",
                              "general_failure"},
  ACCOUNT_EXISTS_REPLY   |-> {"ok", "invalid_login", "general_failure"}]

Literals == <<"ok", "ok_registered", "ok_partial", "login", "enoexists", "denied", "empty",
              "already_exists", "version", "try_again", "invalid_login", "already_logged",
              "general_failure">>

(* The byte that stands for a literal. *)
Text(literal) == <<100 + CHOOSE i \in DOMAIN Literals : Literals[i] = literal>>

Slash == 47

Byte == 0..(Base - 1)
-----------------------------------------------------------------------------
(* How many values an int has. *)
IntValues ==
  LET power[i \in 0..Word] == IF i = 0 THEN 1 ELSE power[i - 1] * Base
  IN power[Word]

(* An int in memory, on the little endian machines this code is for. *)
InMemory(n) ==
  LET rest[i \in 0..Word] == IF i = 0 THEN n ELSE rest[i - 1] \div Base
  IN [i \in 1..Word |-> rest[i - 1] % Base]

(* The types have numbers that an int can be. *)
ASSUME TypesAssumption == 2 * Len(Types) < IntValues

AsInt(bytes) ==
  LET upper[i \in 0..Word] == IF i = 0 THEN 0 ELSE upper[i - 1] * Base + bytes[Word + 1 - i]
      n == upper[Word]
  IN IF 2 * n < IntValues THEN n ELSE n - IntValues

(* With a bug: the bytes are left as they are. *)
swap_nothing(bytes) == bytes

(* Bytes change places with those as far from the other end. *)
gc_swap_memory(bytes) == Reverse(bytes)

BigEndian(n) == gc_swap_memory(InMemory(n))

(* n bytes after the first i; what is past the end is no byte of them. *)
Bytes(s, i, n) == [j \in 1..n |-> IF i + j \in DOMAIN s THEN s[i + j] ELSE 0]

IntAt(s, i) == AsInt(gc_swap_memory(Bytes(s, i, Word)))

(* What add_intern() appends for a field. *)
add_intern(field) == BigEndian(Len(field)) \o field

(* sn_memcmp() is true of equal strings, and gc_serialize() compares it    *)
(* with 0: an answer is refused if its error is all of the named ones.     *)
Refused(p) ==
  p.type \in DOMAIN Errors /\ \A e \in Errors[p.type] : p.u.error = Text(e)

gc_serialize(p) ==
  LET fields == Written[p.type]
  IN BigEndian(GCPROTO_VERSION) \o BigEndian(TypeNumber(p.type))
       \o FlattenSeq([k \in DOMAIN fields |-> add_intern(p.u[fields[k]])])

(* A packet of strings whose length an int can be. *)
IsPacket(p) ==
  /\ p = [type |-> p.type, u |-> p.u]
  /\ p.type \in DOMAIN Written
  /\ p.u \in [ToSet(Written[p.type]) -> Seq(Byte)]
  /\ 2 * Len(gc_serialize(p)) < IntValues

(* get_intern(): the offset behind a field. *)
get_intern(src, offset) == offset + Word + IntAt(src, offset)

(* The offsets in src behind each of n fields, from i on. *)
Offsets(src, i, n) ==
  LET offset[k \in 0..n] == IF k = 0 THEN i ELSE get_intern(src, offset[k - 1])
  IN offset

Place(fields, f) == CHOOSE k \in DOMAIN fields : fields[k] = f

(* What is read of a packet: whether it can be, its type, its fields, and  *)
(* where in src each begins (the strings are not copied).  Only the length *)
(* of a field is checked to be within the packet.                          *)
gc_deserialize(src) ==
  LET Failed == [ok |-> FALSE, type |-> "", u |-> <<>>, at |-> <<>>]
  IN IF \/ 2 * Word > Len(src)
        \/ IntAt(src, 0) # GCPROTO_VERSION
        \/ IntAt(src, Word) + 1 \notin DOMAIN Types
     THEN Failed
     ELSE LET t      == Types[IntAt(src, Word) + 1]
              fields == Taken[t]
              offset == Offsets(src, 2 * Word, Len(fields))
              Before(f) == offset[Place(fields, f) - 1]
          IN IF \E k \in DOMAIN fields : offset[k - 1] + Word > Len(src)
             THEN Failed
             ELSE [ok   |-> TRUE,
                   type |-> t,
                   u    |-> [f \in ToSet(fields) |->
                               Bytes(src, Before(f) + Word, IntAt(src, Before(f)))],
                   at   |-> [f \in ToSet(fields) |-> Before(f) + Word]]
-----------------------------------------------------------------------------
(* The string that starts after i bytes of s, up to a zero. *)
CString(s, i) ==
  LET Rest == SubSeq(s, i + 1, Len(s))
      End  == SelectInSeq(Rest, LAMBDA b : b = 0)
  IN IF End = 0 THEN Rest ELSE SubSeq(Rest, 1, End - 1)

(* gc_parse_delimiter(), and strlen() of each of its results: every        *)
(* delimiter in the n bytes from i becomes a zero, and the last result     *)
(* ends wherever the next zero is.                                         *)
gc_parse_delimiter(s, i, n) ==
  LET Within(j)  == i < j /\ j <= i + n /\ s[j] = Slash
      Terminated == [j \in DOMAIN s |-> IF Within(j) THEN 0 ELSE s[j]]
      Before     == <<i>> \o Ascending({j \in DOMAIN s : Within(j)})
  IN [k \in DOMAIN Before |-> CString(Terminated, Before[k])]

\* With a bug: the length of the field is not skipped.
READ_short(list, i) == IF i < Len(list) THEN i + IntAt(list, i) ELSE i

(* READ, READCPY and PT: the place behind a field; past the end of the     *)
(* list nothing is read.                                                   *)
READ(list, i) == IF i < Len(list) THEN i + Word + IntAt(list, i) ELSE i

(* The entry of a list from i on, without the fields that would begin past *)
(* its end, and the place behind it.                                       *)
Entry(list, fields, i) ==
  LET place[k \in 0..Len(fields)] == IF k = 0 THEN i ELSE READ(list, place[k - 1])
      Before(f) == place[Place(fields, f) - 1]
  IN [u   |-> [f \in {g \in ToSet(fields) : Before(g) < Len(list)} |->
                 Bytes(list, Before(f) + Word, IntAt(list, Before(f)))],
      end |-> place[Len(fields)]]

(* Where the entry after the first e of at most n ones begins, with a gap  *)
(* of some bytes behind each.                                              *)
Starts(list, fields, gap, n) ==
  LET start[e \in 0..n] == IF e = 0 THEN 0 ELSE Entry(list, fields, start[e - 1]).end + gap
  IN start

PairFields == <<"pid", "device", "port_local", "port_remote">>

(* callback_data() of a DEVICE_PAIR_REPLY: the pairs of its list.  The     *)
(* loop counts up once more after each.                                    *)
PairsOf(list) ==
  LET start == Starts(list, PairFields, 1, Len(list))
  IN [e \in {n \in 1..Len(list) : \A d \in 1..n : start[d - 1] < Len(list)} |->
        Entry(list, PairFields, start[e - 1]).u]

TrafficFields == <<"type", "cloud", "device", "upload", "download">>

(* parse_traffic(): an entry that ends early is not reported. *)
parse_traffic(list) ==
  LET start == Starts(list, TrafficFields, 0, Len(list))
      Whole(e) == DOMAIN Entry(list, TrafficFields, start[e - 1]).u = ToSet(TrafficFields)
  IN IF list = <<>> THEN <<[f \in ToSet(TrafficFields) |-> <<>>]>>
     ELSE [e \in {n \in 1..Len(list) : \A d \in 1..n : Whole(d)} |->
             Entry(list, TrafficFields, start[e - 1]).u]
=============================================================================
