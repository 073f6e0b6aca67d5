----------------------------- MODULE RecordList -----------------------------
(***************************************************************************)
(* The lists timers.c and msg.c keep: records linked both ways from head   *)
(* to tail, and a cache of records taken out, linked through next, which   *)
(* the next record put in is taken from.  A record is known by its place   *)
(* in the memory; what a list keeps of it is a key and a body.             *)
(***************************************************************************)
EXTENDS Naturals, Sequences

Null == 0

EmptyList ==
  [head |-> Null, tail |-> Null, cache |-> Null, activesize |-> 0, cachesize |-> 0,
   memory |-> << >>]

Memory(q) == DOMAIN q.memory

\* The first record with the key, or NULL.
Found(q, key) ==
  LET search[n \in 0 .. Len(q.memory)] ==
        IF n = Null \/ q.memory[n].key = key THEN n ELSE search[q.memory[n].next]
  IN search[q.head]

\* The record to use: from the cache, or a new one.
Acquired(q) == IF q.cache # Null THEN q.cache ELSE Len(q.memory) + 1

\* Mutant of Appended: the old tail is not linked to the new record.
AppendedLoose(q, key, body) ==
  LET n == Acquired(q)
      new == [key |-> key, body |-> body, next |-> Null,
              prev |-> IF q.head = Null THEN Null ELSE q.tail]
  IN [ head |-> IF q.head = Null THEN n ELSE q.head,
       tail |-> n,
       cache |-> IF q.cache # Null THEN q.memory[q.cache].next ELSE Null,
       activesize |-> q.activesize + 1,
       cachesize |-> IF q.cache # Null THEN q.cachesize - 1 ELSE q.cachesize,
       memory |-> [ i \in Memory(q) \cup {n} |-> IF i = n THEN new ELSE q.memory[i] ] ]

\* A record is put at the tail.
Appended(q, key, body) ==
  LET n == Acquired(q)
      new == [key |-> key, body |-> body, next |-> Null,
              prev |-> IF q.head = Null THEN Null ELSE q.tail]
  IN [ head |-> IF q.head = Null THEN n ELSE q.head,
       tail |-> n,
       cache |-> IF q.cache # Null THEN q.memory[q.cache].next ELSE Null,
       activesize |-> q.activesize + 1,
       cachesize |-> IF q.cache # Null THEN q.cachesize - 1 ELSE q.cachesize,
       memory |-> [ i \in Memory(q) \cup {n} |->
                      IF i = n THEN new
                      ELSE IF q.head # Null /\ i = q.tail
                           THEN [q.memory[i] EXCEPT !.next = n]
                           ELSE q.memory[i] ] ]

\* A record is taken out of the list and into the cache.
Recycled(q, n) ==
  LET r == q.memory[n]
  IN [ head |-> IF r.prev = Null THEN r.next ELSE q.head,
       tail |-> IF r.next = Null THEN r.prev ELSE q.tail,
       cache |-> n,
       activesize |-> q.activesize - 1,
       cachesize |-> q.cachesize + 1,
       memory |-> [ i \in Memory(q) |->
                      IF i = n THEN [r EXCEPT !.next = q.cache, !.prev = Null]
                      ELSE IF i = r.prev THEN [q.memory[i] EXCEPT !.next = r.next]
                      ELSE IF i = r.next THEN [q.memory[i] EXCEPT !.prev = r.prev]
                      ELSE q.memory[i] ] ]
=============================================================================
