-------------------------------- MODULE Bmc -------------------------------
(***************************************************************************)
(* The memcached cache of examples/bmc-cache/bmc_kern.c.  The replies of   *)
(* the server fill the slots of map_kcache on their way out, SET commands  *)
(* invalidate them on their way in, and GET commands are to be answered    *)
(* from them.  In this repository the tail calls between the XDP programs  *)
(* and the locks around the entries are commented out: each program is an  *)
(* entry point of its own, and an update that copies a reply into an entry *)
(* interleaves with the programs of other CPUs.  hash_keys no longer       *)
(* copies the bytes of a key, so that write_reply compares the entry with  *)
(* zeros, which only the empty key survives.  Packets are abstracted to    *)
(* their kind and their key; offsets are left out.                         *)
(***************************************************************************)
EXTENDS Integers, FiniteSets

CONSTANTS
  BmcCpus,                \* the CPUs that run the programs
  BKeys,                  \* keys of requests and replies
  HashOf,                 \* the FNV hash of each key
  LenOf,                  \* the length of each key
  BMC_CACHE_ENTRY_COUNT,  \* slots of map_kcache (2)
  BMC_MAX_KEY_IN_PACKET,  \* entries of map_keys (30)
  MaxBmcEvents,           \* bound of the model on the packets
  NoReply                 \* the contents of an entry nothing was copied to

ASSUME BmcSlots == BMC_CACHE_ENTRY_COUNT \in Nat \ {0} /\ BMC_MAX_KEY_IN_PACKET \in Nat
ASSUME BmcKeys == HashOf \in [BKeys -> Nat] /\ LenOf \in [BKeys -> Nat]
ASSUME BmcNoReply == NoReply \notin [key : BKeys, whole : BOOLEAN]

VARIABLES
  map_kcache,           \* the slots: valid, hash, and the reply in data
  map_keys,             \* of each CPU: hash and length of the keys of its request
  map_parsing_context,  \* of each CPU: key_count, current_key, write_pkt_offset # 0
  map_stats,            \* of each CPU: the counters
  bmcRun,               \* of each CPU: the update_cache that is under way
  bmcLeft               \* packets still to come

bmcVars == <<map_kcache, map_keys, map_parsing_context, map_stats, bmcRun, bmcLeft>>
-----------------------------------------------------------------------------
BmcIdle == [pc |-> "idle"]
\* Replies of the server: complete, or cut before their second line ends.
Replies == [key : BKeys, whole : BOOLEAN]
Slot(h) == h % BMC_CACHE_ENTRY_COUNT
Counters == {"get_recv_count", "set_recv_count", "get_resp_count", "hit_misprediction",
             "hit_count", "miss_count", "update_count", "invalidation_count"}
Count(c, name, n) == [map_stats EXCEPT ![c][name] = @ + n]

BmcInit ==
  /\ map_kcache = [i \in 0..BMC_CACHE_ENTRY_COUNT - 1 |-> [valid |-> FALSE, hash |-> 0, data |-> NoReply]]
  /\ map_keys = [c \in BmcCpus |-> [i \in 0..BMC_MAX_KEY_IN_PACKET - 1 |-> [hash |-> 0, len |-> 0]]]
  /\ map_parsing_context = [c \in BmcCpus |-> [key_count |-> 0, current_key |-> 0, written |-> FALSE]]
  /\ map_stats = [c \in BmcCpus |-> [s \in Counters |-> 0]]
  /\ bmcRun = [c \in BmcCpus |-> BmcIdle]
  /\ bmcLeft = MaxBmcEvents

Packet(c) == bmcRun[c].pc = "idle" /\ bmcLeft > 0 /\ bmcLeft' = bmcLeft - 1

\* A GET over UDP starts a new request; any other packet changes nothing.
bmc_rx_filter_main(c) ==
  /\ Packet(c)
  /\ map_stats' = Count(c, "get_recv_count", 1)
  /\ map_parsing_context' =
       [map_parsing_context EXCEPT ![c] = [key_count |-> 0, current_key |-> 0, written |-> FALSE]]
  /\ UNCHANGED <<map_kcache, map_keys, bmcRun>>

\* The hash of one key goes to the next free element of map_keys, if there is
\* one; the key is kept when its entry matches.
HashKey(c, k) == [map_keys EXCEPT ![c][map_parsing_context[c].key_count].hash = HashOf[k]]
bmc_hash_keys_main(c, k) ==
  LET n == map_parsing_context[c].key_count
      entry == map_kcache[Slot(HashOf[k])]
  IN /\ Packet(c)
     /\ n \in DOMAIN map_keys[c]
     /\ IF entry.valid /\ entry.hash = HashOf[k]
        THEN /\ map_keys' = [HashKey(c, k) EXCEPT ![c][n].len = LenOf[k]]
             /\ map_parsing_context' = [map_parsing_context EXCEPT ![c].key_count = n + 1]
        ELSE map_keys' = HashKey(c, k) /\ UNCHANGED map_parsing_context
     /\ UNCHANGED <<map_kcache, map_stats, bmcRun>>

\* The saved key under the cursor still matches its entry, and the zeros in
\* its data agree with the entry.
Matches(key) == map_kcache[Slot(key.hash)].valid /\ map_kcache[Slot(key.hash)].hash = key.hash
CacheHit(key) == Matches(key) => key.len = 0

\* One key of the reply; room says whether the packet has room for the data.
bmc_write_reply_main(c, room) ==
  LET x == map_parsing_context[c]
      key == map_keys[c][x.current_key]
      copied == Matches(key) /\ CacheHit(key) /\ room
      last == x.current_key + 1 = x.key_count
      counted == Count(c, IF CacheHit(key) THEN "hit_count" ELSE "miss_count", 1)
  IN /\ Packet(c)
     /\ x.current_key \in DOMAIN map_keys[c]
     /\ map_stats' = IF last /\ ~x.written /\ ~copied
                     THEN [counted EXCEPT ![c].hit_misprediction = @ + x.key_count] ELSE counted
     /\ map_parsing_context' = [map_parsing_context EXCEPT ![c] =
          [x EXCEPT !.current_key = x.current_key + 1,
                    !.written = IF ~last /\ x.current_key + 1 < BMC_MAX_KEY_IN_PACKET
                                THEN x.written \/ copied ELSE x.written]]
     /\ UNCHANGED <<map_kcache, map_keys, bmcRun>>

\* One SET of a TCP packet: its entry, whatever key it is of, is invalidated.
bmc_invalidate_cache_main(c, k) ==
  LET i == Slot(HashOf[k])
      set == Count(c, "set_recv_count", 1)
  IN /\ Packet(c)
     /\ map_kcache' = [map_kcache EXCEPT ![i].valid = FALSE]
     /\ map_stats' = IF map_kcache[i].valid THEN [set EXCEPT ![c].invalidation_count = @ + 1] ELSE set
     /\ UNCHANGED <<map_keys, map_parsing_context, bmcRun>>

\* A reply of the server leaves: tx_filter counts it and calls update_cache,
\* which is done if the entry holds the same key under the same hash.
UpToDate(r) ==
  LET entry == map_kcache[Slot(HashOf[r.key])] IN
  entry.valid /\ entry.hash = HashOf[r.key] /\ entry.data.key = r.key
bmc_tx_filter_main(c, r) ==
  /\ Packet(c)
  /\ map_stats' = Count(c, "get_resp_count", 1)
  /\ bmcRun' = IF UpToDate(r) THEN bmcRun ELSE [bmcRun EXCEPT ![c] = [pc |-> "copy", reply |-> r]]
  /\ UNCHANGED <<map_kcache, map_keys, map_parsing_context>>

\* Mutant: the entry is made valid first and the reply copied later.
CopyReply_later(c) ==
  LET h == HashOf[bmcRun[c].reply.key] IN
  /\ bmcRun[c].pc = "copy"
  /\ map_kcache' = [map_kcache EXCEPT ![Slot(h)].valid = TRUE, ![Slot(h)].hash = h]
  /\ bmcRun' = [bmcRun EXCEPT ![c].pc = "publish"]
  /\ UNCHANGED <<map_keys, map_parsing_context, map_stats, bmcLeft>>
\* The reply is copied over the entry, which stays valid meanwhile if it was.
CopyReply(c) ==
  /\ bmcRun[c].pc = "copy"
  /\ map_kcache' = [map_kcache EXCEPT ![Slot(HashOf[bmcRun[c].reply.key])].data = bmcRun[c].reply]
  /\ bmcRun' = [bmcRun EXCEPT ![c].pc = "publish"]
  /\ UNCHANGED <<map_keys, map_parsing_context, map_stats, bmcLeft>>

\* A complete copy makes the entry valid under its own hash.
PublishEntry(c) ==
  LET h == HashOf[bmcRun[c].reply.key] IN
  /\ bmcRun[c].pc = "publish"
  /\ IF bmcRun[c].reply.whole
     THEN /\ map_kcache' = [map_kcache EXCEPT ![Slot(h)].valid = TRUE, ![Slot(h)].hash = h]
          /\ map_stats' = Count(c, "update_count", 1)
     ELSE UNCHANGED <<map_kcache, map_stats>>
  /\ bmcRun' = [bmcRun EXCEPT ![c] = BmcIdle]
  /\ UNCHANGED <<map_keys, map_parsing_context, bmcLeft>>

BmcNext ==
  \E c \in BmcCpus :
    \/ bmc_rx_filter_main(c)
    \/ \E k \in BKeys : bmc_hash_keys_main(c, k) \/ bmc_invalidate_cache_main(c, k)
    \/ \E room \in BOOLEAN : bmc_write_reply_main(c, room)
    \/ \E r \in Replies : bmc_tx_filter_main(c, r)
    \/ CopyReply(c) \/ PublishEntry(c)

BmcSpec == BmcInit /\ [][BmcNext]_bmcVars
-----------------------------------------------------------------------------
\* A valid entry holds a reply, of a key of its slot, and so does its hash,
\* whatever the CPUs that fill and invalidate the slot do between the copy and
\* the mark that it is valid (update_cache): update_cache reads the key in the data of a
\* valid entry, and write_reply sends it, without asking.
ValidEntriesAreFilled ==
  \A i \in DOMAIN map_kcache :
    map_kcache[i].valid =>
      /\ map_kcache[i].data # NoReply
      /\ Slot(map_kcache[i].hash) = i /\ Slot(HashOf[map_kcache[i].data.key]) = i
=============================================================================
