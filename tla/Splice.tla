------------------------------- MODULE Splice -------------------------------
(***************************************************************************)
(* What a tunnel promises the two programs it stands between: a connection *)
(* of a local client is joined to one connection to a backend, which gets  *)
(* what the client sends, and the client gets what the backend answers.    *)
(* Either end may be cut off at any time, which loses what is under way;   *)
(* until then nothing is lost, repeated, reordered or given to another.    *)
(***************************************************************************)
EXTENDS Naturals, Sequences, FiniteSets

CONSTANTS Local,  \* connections of local clients
          Conn,   \* connections to backends
          NULL

VARIABLES st,     \* connection -> "unused", "open" or "freed"
          sent,   \* connection -> how much it has sent
          owner,  \* Conn -> the local client that it was opened for
          got,    \* Conn -> what the backend was given
          taken   \* Local -> what the client was given

vars == <<st, sent, owner, got, taken>>

End == Local \cup Conn

Init == /\ st = [x \in End |-> "unused"]
        /\ sent = [x \in End |-> 0]
        /\ owner = [k \in Conn |-> NULL]
        /\ got = [k \in Conn |-> <<>>]
        /\ taken = [c \in Local |-> <<>>]

Accept(c) == /\ st[c] = "unused"
             /\ st' = [st EXCEPT ![c] = "open"]
             /\ UNCHANGED <<sent, owner, got, taken>>

(* A backend is connected to for a client that has sent something. *)
Connect(k, c) == /\ st[k] = "unused" /\ sent[c] > 0
                 /\ st' = [st EXCEPT ![k] = "open"]
                 /\ owner' = [owner EXCEPT ![k] = c]
                 /\ UNCHANGED <<sent, got, taken>>

Send(x) == /\ st[x] = "open"
           /\ sent' = [sent EXCEPT ![x] = @ + 1]
           /\ UNCHANGED <<st, owner, got, taken>>

(* The backend is given what comes next from the client.  The first thing  *)
(* may be a later one: when a connection was cut off, the next one starts  *)
(* with what the client sends then.                                        *)
Request(k) ==
  /\ st[k] = "open"
  /\ \E n \in 1..sent[owner[k]] :
       /\ got[k] # <<>> => n = got[k][Len(got[k])].n + 1
       /\ got' = [got EXCEPT ![k] = Append(@, [from |-> owner[k], n |-> n])]
  /\ UNCHANGED <<st, sent, owner, taken>>

(* The client is given the next answer of its backend, from the first on.  *)
Answer(c, k) ==
  /\ st[c] = "open" /\ owner[k] = c
  /\ LET n == Cardinality({i \in DOMAIN taken[c] : taken[c][i].from = k}) + 1
     IN /\ n <= sent[k]
        /\ taken' = [taken EXCEPT ![c] = Append(@, [from |-> k, n |-> n])]
  /\ UNCHANGED <<st, sent, owner, got>>

(* Some ends are closed, by themselves or with the relay. *)
Cut(xs) == /\ \A x \in xs : st[x] = "open"
           /\ st' = [x \in End |-> IF x \in xs THEN "freed" ELSE st[x]]
           /\ UNCHANGED <<sent, owner, got, taken>>

Next == \/ \E c \in Local : \/ Accept(c)
                            \/ \E k \in Conn : Connect(k, c) \/ Answer(c, k)
        \/ \E x \in End : Send(x)
        \/ \E k \in Conn : Request(k)
        \/ \E xs \in SUBSET End : Cut(xs)

Spec == Init /\ [][Next]_vars
=============================================================================
