------------------------------ MODULE Sessions ------------------------------
(***************************************************************************)
(* The session store of one user: the Redis keys sess:<token>, each with     *)
(* its expiry, and sess:user:<id>, the set that indexes them, with an expiry *)
(* of its own (auth/session.go).  Revoking all sessions of a user reads the  *)
(* index, so a live session missing from it cannot be revoked.  Get slides   *)
(* the expiry between two round trips; pipelines are MULTI/EXEC and happen   *)
(* as a whole or, when Redis fails, not at all.                              *)
(***************************************************************************)
EXTENDS Naturals, FiniteSets

CONSTANTS
    Tokens,        \* session tokens that may be minted
    StoreReqs,     \* requests at the store at once
    ttl            \* OSCTF_SESSION_TTL, in ticks

ASSUME TtlAssumption == ttl \in Nat

VARIABLES
    key,      \* ticks each sess:<token> has left; 0: no such key
    minted,   \* tokens handed out so far
    index,    \* the members of sess:user:<id>
    indexTTL, \* ticks the index has left; 0: no such key
    sreq      \* what each request is doing

sessVars == <<key, minted, index, indexTTL, sreq>>

Free == [op |-> "free"]
Live(t) == key[t] > 0

SessTypeOK ==
    /\ key \in [Tokens -> 0..ttl]
    /\ minted \subseteq Tokens /\ index \subseteq minted
    /\ indexTTL \in 0..2 * ttl

SessInit ==
    /\ key = [t \in Tokens |-> 0]
    /\ minted = {} /\ index = {} /\ indexTTL = 0
    /\ sreq = [r \in StoreReqs |-> Free]

At(r, op) == sreq[r].op = op
Step(r, rec) == sreq' = [sreq EXCEPT ![r] = rec]

\* The pipeline that (re)writes a token's expiry and its place in the index.
Indexed(t) ==
    /\ index' = index \cup {t}
    /\ indexTTL' = 2 * ttl

\* Create: HSET, EXPIRE, SADD, EXPIRE of the index, in one pipeline.
CreateSession(r) ==
    /\ At(r, "free")
    /\ \E t \in Tokens \ minted :
        /\ minted' = minted \cup {t}
        /\ key' = [key EXCEPT ![t] = ttl]
        /\ Indexed(t)
    /\ UNCHANGED sreq

\* Get: HGETALL and TTL; less than half left, and it will refresh.
GetReads(r) ==
    /\ At(r, "free")
    /\ \E t \in Tokens :
        /\ Live(t) /\ 2 * key[t] < ttl
        /\ Step(r, [op |-> "refresh", t |-> t])
    /\ UNCHANGED <<key, minted, index, indexTTL>>

\* Faulty variant of GetRefreshes (mutation checks).
MutGetRefreshes(r) ==
    /\ At(r, "refresh")
    /\ LET t == sreq[r].t IN key' = [key EXCEPT ![t] = IF @ > 0 THEN ttl ELSE 0]
    /\ Step(r, Free)
    /\ UNCHANGED <<minted, index, indexTTL>>

\* The refresh.  EXPIRE finds no key if the session is gone by now, SADD
\* still adds the token.
GetRefreshes(r) ==
    /\ At(r, "refresh")
    /\ LET t == sreq[r].t IN
       /\ key' = [key EXCEPT ![t] = IF @ > 0 THEN ttl ELSE 0]
       /\ Indexed(t)
    /\ Step(r, Free)
    /\ UNCHANGED minted

RefreshLost(r) == At(r, "refresh") /\ Step(r, Free)
                  /\ UNCHANGED <<key, minted, index, indexTTL>>

\* DEL and SREM of a set of tokens; the empty set is no key.
Dropped(ts) ==
    /\ key' = [t \in Tokens |-> IF t \in ts THEN 0 ELSE key[t]]
    /\ index' = index \ ts
    /\ indexTTL' = IF index \subseteq ts THEN 0 ELSE indexTTL

\* Delete: Get (GetReads and GetRefreshes, when it refreshes), then the pipeline.
DeleteSession(r) ==
    /\ At(r, "free")
    /\ \E t \in Tokens : Live(t) /\ Step(r, [op |-> "drop", ts |-> {t}])
    /\ UNCHANGED <<key, minted, index, indexTTL>>

\* DeleteAllForUser: SMEMBERS, then one pipeline over what it listed.
DeleteAllLists(r) ==
    /\ At(r, "free")
    /\ \E keep \in SUBSET Tokens :
        /\ Cardinality(keep) <= 1
        /\ Step(r, [op |-> "drop", ts |-> index \ keep])
    /\ UNCHANGED <<key, minted, index, indexTTL>>

DropListed(r) ==
    /\ At(r, "drop")
    /\ Dropped(sreq[r].ts)
    /\ Step(r, Free)
    /\ UNCHANGED minted

\* A tick of Redis' clock.
Tick ==
    /\ key' = [t \in Tokens |-> IF key[t] > 0 THEN key[t] - 1 ELSE 0]
    /\ indexTTL' = IF indexTTL > 0 THEN indexTTL - 1 ELSE 0
    /\ index' = IF indexTTL <= 1 THEN {} ELSE index
    /\ UNCHANGED <<minted, sreq>>

SessNext ==
    \/ \E r \in StoreReqs :
        \/ CreateSession(r) \/ GetReads(r) \/ GetRefreshes(r) \/ RefreshLost(r)
        \/ DeleteSession(r) \/ DeleteAllLists(r) \/ DropListed(r)
    \/ Tick

SessSpec == SessInit /\ [][SessNext]_sessVars

-----------------------------------------------------------------------------
(***************************************************************************)
(* Every live session is in its user's index, whatever expires first and     *)
(* however refreshes, logouts and revocations interleave ("the sess:user set *)
(* can never expire (or drop this token) while the session is still live",   *)
(* Get's comment), so that a ban finds it.                                   *)
(***************************************************************************)
IndexCovers == \A t \in Tokens : Live(t) => t \in index
=============================================================================
