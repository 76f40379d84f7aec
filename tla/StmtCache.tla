----------------------------- MODULE StmtCache ------------------------------
(***************************************************************************)
(* The automatic statement cache of a pgx connection (external, as the     *)
(* modes and pgstat use it): a text that is queried with the extended      *)
(* protocol is prepared once and kept, least recently used last.  A full   *)
(* cache gives up its oldest text, whose statement stays on the server     *)
(* until the connection's next call deallocates it.                        *)
(***************************************************************************)
EXTENDS Integers, SequencesExt

CONSTANT Cap    \* capacity of the cache, 512 by default

ASSUME CapAssumption == Cap \in Nat \ {0}

(* Connections are records: the cached texts (lru, most recent first), the *)
(* texts given up and not deallocated (invalid), and the texts that are    *)
(* prepared on the server.                                                 *)
Conn(texts) == [lru : Seq(texts), invalid : SUBSET texts, server : SUBSET texts]

NewConn == [lru |-> <<>>, invalid |-> {}, server |-> {}]

Cached(c) == ToSet(c.lru)

(* What Query, Exec and SendBatch do first. *)
Deallocate(c) == [lru |-> c.lru, invalid |-> {}, server |-> c.server \ c.invalid]

Touch(c, text) == [c EXCEPT !.lru = <<text>> \o RemoveFirst(@, text)]

Put(c, text) ==
    IF Len(c.lru) < Cap THEN [c EXCEPT !.lru = <<text>> \o @]
    ELSE [lru |-> <<text>> \o Front(c.lru), invalid |-> c.invalid \cup {Last(c.lru)}, server |-> c.server]

Prepare(c, text) == [c EXCEPT !.server = @ \cup {text}]

Lookup(c, text) == IF text \in Cached(c) THEN Touch(c, text) ELSE c

(* Query and QueryRow, and Exec with arguments. *)
Query(c, text) ==
    LET d == Deallocate(c)
    IN  IF text \in Cached(d) THEN Touch(d, text) ELSE Put(Prepare(d, text), text)

(* A text of a batch that was not in the cache when the batch was made up. *)
Learn(known, c, text) == IF text \in known THEN c ELSE Put(Prepare(c, text), text)

Looked(c, s, t, u, v) == Lookup(Lookup(Lookup(Lookup(c, s), t), u), v)

(* SendBatch looks all its texts up before it prepares the new ones; the   *)
(* batches of mode 2b have four different ones.                            *)
SendBatch(c, s, t, u, v) ==
    LET d == Deallocate(c)
        known == Cached(d)
    IN  Learn(known, Learn(known, Learn(known, Learn(known, Looked(d, s, t, u, v), s), t), u), v)

(* What becomes of a cached text whose execution failed. *)
Invalidate(c, text) ==
    IF text \in Cached(c)
    THEN [lru |-> RemoveFirst(c.lru, text), invalid |-> c.invalid \cup {text}, server |-> c.server]
    ELSE c

(* A query that failed: in its deallocation, its preparation or its        *)
(* execution.                                                              *)
Failed(c, text) == {c, Deallocate(c), Invalidate(Query(c, text), text)}

---------------------------------------------------------------------------
(* What holds of a connection between two calls. *)
Consistent(c) ==
    /\ IsInjective(c.lru) /\ Len(c.lru) <= Cap
    /\ c.invalid \cap Cached(c) = {}
    /\ c.server = Cached(c) \cup c.invalid /\ IsFiniteSet(c.server)

(* The n texts used last. *)
Recent(c, n) == {c.lru[j] : j \in {k \in DOMAIN c.lru : k <= n}}
=============================================================================
