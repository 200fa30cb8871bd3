------------------------------ MODULE HashMap ------------------------------
(***************************************************************************)
(* misc/hashmap.c: an array of chains; a new key is put at the end of the  *)
(* chain its hash selects.  A map is its array of chains.                  *)
(***************************************************************************)
EXTENDS Naturals, Sequences, FiniteSetsExt, SequencesExt

CONSTANTS
  Sz,        \* map->sz, the number of chains
  Hash(_),   \* map->hash
  Null       \* NULL

hashmap_create == [b \in 0 .. Sz - 1 |-> << >>]

Bucket(key) == Hash(key) % Sz
\* Where a key's entry is in its chain: at most one position.
Places(map, key) == {i \in DOMAIN map[Bucket(key)] : map[Bucket(key)][i].key = key}

hashmap_has(map, key) == Places(map, key) # {}

hashmap_get(map, key) ==
  IF hashmap_has(map, key)
  THEN map[Bucket(key)][CHOOSE i \in Places(map, key) : TRUE].value ELSE Null

\* Whether the entry is new, and so allocated, is hashmap_has before.
hashmap_set(map, key, val) ==
  IF hashmap_has(map, key)
  THEN [map EXCEPT ![Bucket(key)] =
          [i \in DOMAIN @ |-> IF @[i].key = key THEN [@[i] EXCEPT !.value = val] ELSE @[i]]]
  ELSE [map EXCEPT ![Bucket(key)] = Append(@, [key |-> key, value |-> val])]

\* hashmap_pop gives the value back, hashmap_delete frees it; both free the key.
hashmap_pop(map, key) ==
  [map EXCEPT ![Bucket(key)] = SelectSeq(@, LAMBDA e : e.key # key)]

hashmap_empty(map) == \A b \in DOMAIN map : map[b] = << >>

\* The entries, chain by chain.
Entries(map) == FoldLeft(LAMBDA all, b : all \o map[b - 1], << >>, [i \in 1 .. Sz |-> i])
hashmap_keys(map) == [i \in DOMAIN Entries(map) |-> Entries(map)[i].key]
hashmap_values(map) == [i \in DOMAIN Entries(map) |-> Entries(map)[i].value]
=============================================================================
