---------------------------- MODULE LayeredCache ----------------------------
(* pkg/cache: a client keeps values in the process (L1) and in Redis (L2),   *)
(* through the access of internal/kernel/app/cache. Callers run Get, Set,    *)
(* Delete, InvalidateTags and GetOrLoad side by side, one Redis command at a *)
(* time; a command may fail, with or without having taken effect. All values *)
(* carry the one tag, and the same time to live.                             *)
EXTENDS FiniteSets

CONSTANTS
    Callers,    \* goroutines that share a client
    Keys,       \* keys, all of them with the same tag
    Values      \* values to store

None == "none"

ASSUME CacheAssumption == None \notin Keys \cup Values

VARIABLES
    driver,     \* "redis" or "disabled" (Config.Driver)
    local,      \* the value of each key in L1, or None
    tagKeys,    \* the keys of the tag, as the client knows them
    remote,     \* the value of each key in Redis, or None
    tagSet,     \* the keys of the tag, as Redis knows them
    ops,        \* what each caller is doing
    cacheClosed,
    legal,      \* what may be stored under a key when nobody works (history)
    tagged,     \* is the key's last Set "known" to have succeeded, is that "sure"
                \* because no invalidation failed since, or neither (history)
    gone        \* keys an InvalidateTags has answered for since (history)

cacheVars == <<driver, local, tagKeys, remote, tagSet, ops, cacheClosed, legal, tagged, gone>>
Histories == <<legal, tagged, gone>>

Resting == [op |-> "rest", key |-> None, step |-> None, value |-> None, read |-> None,
            keys |-> {}, members |-> {}, failed |-> FALSE, alone |-> TRUE]
Quiet == \A c \in Callers : ops[c].op = "rest"
\* The client's own index of the tag.
RemoveTagIndexes == tagKeys' = {}
AddTagIndexes(k) == tagKeys' = tagKeys \cup {k}
RemoveKeyFromAllTags(k) == tagKeys' = tagKeys \ {k}
\* Faulty: only what the index knows is dropped, and a value copied from Redis
\* is not in it.
DeleteIndexedKeys(keys) == local' = [k \in Keys |-> IF k \in keys \cap tagKeys THEN None ELSE local[k]]

DeleteLocalKeys(keys) == local' = [k \in Keys |-> IF k \in keys THEN None ELSE local[k]]

Goes(c, step) == ops' = [ops EXCEPT ![c].step = step]
At(c, op, step) == ops[c].op = op /\ ops[c].step = step

\* One Redis command: what it does if it succeeds, and whether it does so when
\* it fails. A disabled backend refuses it.
Commands(c, Effect, Otherwise, Succeeds, Fails) ==
    \/ driver = "redis" /\ Effect /\ Succeeds
    \/ driver = "redis" /\ Effect /\ Fails
    \/ Otherwise /\ Fails

-----------------------------------------------------------------------------
(* The end of an operation, and what it promises about the keys it was for.  *)
Promise(c, keys, failed, values) ==
    /\ legal' = [k \in Keys |->
         IF k \notin keys THEN legal[k]
         ELSE IF ~ops[c].alone THEN Values
         ELSE IF failed THEN legal[k] \cup values
         ELSE values]
    /\ ops' = [ops EXCEPT ![c] = Resting]

ReadEnds(c) == ops' = [ops EXCEPT ![c] = Resting] /\ UNCHANGED Histories

SetEnds(c, failed) ==
    /\ Promise(c, {ops[c].key}, failed, {ops[c].value})
    /\ tagged' = [tagged EXCEPT ![ops[c].key] = IF failed \/ ~ops[c].alone THEN None ELSE "sure"]
    /\ gone' = gone \ {ops[c].key}

DeleteEnds(c, failed) ==
    /\ Promise(c, {ops[c].key}, failed, {})
    /\ tagged' = [tagged EXCEPT ![ops[c].key] = None]
    /\ UNCHANGED gone

\* An invalidation only answers for the keys Redis knows to have the tag.
InvalidationEnds(c, failed) ==
    LET answers == ~failed /\ ops[c].alone
        Tagged(sorts) == {k \in Keys : tagged[k] \in sorts}
    IN  /\ Promise(c, IF answers THEN Tagged({"sure"}) ELSE Keys, failed, {})
        /\ tagged' = [k \in Keys |-> IF answers \/ tagged[k] = None THEN tagged[k] ELSE "known"]
        /\ gone' = IF answers THEN gone \cup Tagged({"sure", "known"}) ELSE gone

-----------------------------------------------------------------------------
\* validateOpen, and who else is working. GetOrLoad is a Get that goes on; a
\* caller that finds another load of its key waits for that one's result.
Calls(c, op, key, value) ==
    /\ ops[c].op = "rest" /\ ~cacheClosed
    /\ LET alone == Quiet
           others == {d \in Callers : ops[d].op = "load" /\ ops[d].key = key}
       IN  ops' = [d \in Callers |->
             IF d = c
             THEN [Resting EXCEPT !.op = op, !.key = key, !.value = value, !.alone = alone,
                                  !.step = IF op = "load" /\ others # {} THEN "join" ELSE "begin"]
             ELSE IF ops[d].op = "rest" THEN ops[d] ELSE [ops[d] EXCEPT !.alone = FALSE]]
    /\ UNCHANGED <<driver, local, tagKeys, remote, tagSet, cacheClosed, Histories>>

Joined(c) ==
    /\ At(c, "load", "join")
    /\ \A d \in Callers \ {c} : ops[d].op = "load" /\ ops[d].key = ops[c].key => ops[d].step = "join"
    /\ ReadEnds(c)
    /\ UNCHANGED <<driver, local, tagKeys, remote, tagSet, cacheClosed>>

-----------------------------------------------------------------------------
(* Get. What a miss or an error means for GetOrLoad is the same.             *)
Reads(c) == ops[c].op \in {"get", "load"}
Missed(c) ==
    IF ops[c].op = "get" THEN ReadEnds(c)
    ELSE Goes(c, "set") /\ UNCHANGED Histories

GetLocal(c) ==
    /\ Reads(c) /\ ops[c].step = "begin"
    /\ IF local[ops[c].key] # None THEN ReadEnds(c)
       ELSE Goes(c, "remote") /\ UNCHANGED Histories
    /\ UNCHANGED <<driver, local, tagKeys, remote, tagSet, cacheClosed>>

GetRemote(c) ==
    /\ Reads(c) /\ ops[c].step = "remote"
    /\ LET value == remote[ops[c].key]
       IN  \/ /\ driver = "redis" /\ value # None
              /\ ops' = [ops EXCEPT ![c].step = "ttl", ![c].read = value]
              /\ UNCHANGED Histories
           \/ Missed(c)
    /\ UNCHANGED <<driver, local, tagKeys, remote, tagSet, cacheClosed>>

\* The time to live is read by a second command; a key that is gone has none,
\* and its value is returned but not kept.
Backfill(c) ==
    /\ Reads(c) /\ ops[c].step = "ttl"
    /\ \/ /\ local' = IF remote[ops[c].key] = None THEN local
                      ELSE [local EXCEPT ![ops[c].key] = ops[c].read]
          /\ ReadEnds(c)
       \/ Missed(c) /\ UNCHANGED local
    /\ UNCHANGED <<driver, tagKeys, remote, tagSet, cacheClosed>>

-----------------------------------------------------------------------------
(* Set, and the loader's value that GetOrLoad sets.                          *)
SetBegins(c) == At(c, "set", "begin") \/ At(c, "load", "set")

SetLocal(c) ==
    /\ SetBegins(c)
    /\ IF cacheClosed /\ ops[c].op = "load" THEN ReadEnds(c) /\ UNCHANGED <<local, tagKeys>>
       ELSE /\ local' = [local EXCEPT ![ops[c].key] = ops[c].value]
            /\ AddTagIndexes(ops[c].key)
            /\ Goes(c, "value") /\ UNCHANGED Histories
    /\ UNCHANGED <<driver, remote, tagSet, cacheClosed>>

SetFails(c) ==
    /\ DeleteLocalKeys({ops[c].key})
    /\ RemoveKeyFromAllTags(ops[c].key)
    /\ SetEnds(c, TRUE)

SetValue(c) ==
    /\ ops[c].step = "value"
    /\ Commands(c, remote' = [remote EXCEPT ![ops[c].key] = ops[c].value], UNCHANGED remote,
                Goes(c, "index") /\ UNCHANGED <<local, tagKeys, Histories>>, SetFails(c))
    /\ UNCHANGED <<driver, tagSet, cacheClosed>>

\* addTagIndex: SADD, and EXPIRE, which may fail when SADD has not.
SetIndex(c) ==
    /\ ops[c].step = "index"
    /\ Commands(c, tagSet' = tagSet \cup {ops[c].key}, UNCHANGED tagSet,
                SetEnds(c, FALSE) /\ UNCHANGED <<local, tagKeys>>, SetFails(c))
    /\ UNCHANGED <<driver, remote, cacheClosed>>

-----------------------------------------------------------------------------
(* Delete and InvalidateTags.                                                *)
DeleteLocal(c) ==
    /\ At(c, "delete", "begin")
    /\ DeleteLocalKeys({ops[c].key})
    /\ RemoveKeyFromAllTags(ops[c].key)
    /\ Goes(c, "remove")
    /\ UNCHANGED <<driver, remote, tagSet, cacheClosed, Histories>>

DeleteRemote(c) ==
    /\ At(c, "delete", "remove")
    /\ Commands(c, remote' = [remote EXCEPT ![ops[c].key] = None], UNCHANGED remote,
                DeleteEnds(c, FALSE), DeleteEnds(c, TRUE))
    /\ UNCHANGED <<driver, local, tagKeys, tagSet, cacheClosed>>

\* keysForTags, then SMEMBERS; when that fails nothing else is asked.
ReadMembers(c) ==
    /\ At(c, "invalidate", "begin")
    /\ \/ /\ driver = "redis"
          /\ ops' = [ops EXCEPT ![c].step = "tag", ![c].keys = tagKeys, ![c].members = tagSet]
       \/ ops' = [ops EXCEPT ![c].step = "forget", ![c].keys = tagKeys, ![c].failed = TRUE]
    /\ UNCHANGED <<driver, local, tagKeys, remote, tagSet, cacheClosed, Histories>>

DeleteTag(c) ==
    /\ At(c, "invalidate", "tag")
    /\ LET next == IF ops[c].members = {} THEN "forget" ELSE "values"
       IN  Commands(c, tagSet' = {}, UNCHANGED tagSet, Goes(c, next),
                    ops' = [ops EXCEPT ![c].step = next, ![c].failed = TRUE])
    /\ UNCHANGED <<driver, local, tagKeys, remote, cacheClosed, Histories>>

DeleteValues(c) ==
    /\ At(c, "invalidate", "values")
    /\ Commands(c, remote' = [k \in Keys |-> IF k \in ops[c].members THEN None ELSE remote[k]], UNCHANGED remote,
                Goes(c, "forget"), ops' = [ops EXCEPT ![c].step = "forget", ![c].failed = TRUE])
    /\ UNCHANGED <<driver, local, tagKeys, tagSet, cacheClosed, Histories>>

\* deleteLocalKeys and removeTagIndexes, whatever Redis answered.
Forget(c) ==
    /\ At(c, "invalidate", "forget")
    /\ DeleteLocalKeys(ops[c].keys \cup ops[c].members)
    /\ RemoveTagIndexes
    /\ InvalidationEnds(c, ops[c].failed)
    /\ UNCHANGED <<driver, remote, tagSet, cacheClosed>>

-----------------------------------------------------------------------------
(* Time, and Close.                                                          *)
\* A value lapses in either store on its own; the tag outlives its values.
Lapse ==
    /\ \/ \E k \in Keys : local[k] # None /\ local' = [local EXCEPT ![k] = None] /\ UNCHANGED <<remote, tagSet>>
       \/ \E k \in Keys : remote[k] # None /\ remote' = [remote EXCEPT ![k] = None] /\ UNCHANGED <<local, tagSet>>
       \/ tagSet # {} /\ (\A k \in tagSet : remote[k] = None) /\ tagSet' = {} /\ UNCHANGED <<local, remote>>
    /\ UNCHANGED <<driver, tagKeys, ops, cacheClosed, Histories>>

Close ==
    /\ ~cacheClosed
    /\ cacheClosed' = TRUE
    /\ local' = [k \in Keys |-> None] /\ tagKeys' = {}
    /\ UNCHANGED <<driver, remote, tagSet, ops, Histories>>

-----------------------------------------------------------------------------
CacheInit ==
    /\ driver \in {"redis", "disabled"}
    /\ local = [k \in Keys |-> None] /\ remote = local
    /\ tagKeys = {} /\ tagSet = {} /\ cacheClosed = FALSE
    /\ ops = [c \in Callers |-> Resting]
    /\ legal = [k \in Keys |-> {}] /\ gone = {}
    /\ tagged = [k \in Keys |-> None]

CacheNext ==
    \/ \E c \in Callers, k \in Keys :
        \/ \E op \in {"get", "delete"} : Calls(c, op, k, None)
        \/ \E op \in {"set", "load"}, v \in Values : Calls(c, op, k, v)
    \/ \E c \in Callers :
        \/ Calls(c, "invalidate", None, None)
        \/ Joined(c) \/ GetLocal(c) \/ GetRemote(c) \/ Backfill(c)
        \/ SetLocal(c) \/ SetValue(c) \/ SetIndex(c)
        \/ DeleteLocal(c) \/ DeleteRemote(c)
        \/ ReadMembers(c) \/ DeleteTag(c) \/ DeleteValues(c) \/ Forget(c)
    \/ Lapse \/ Close

CacheSpec == CacheInit /\ [][CacheNext]_cacheVars

-----------------------------------------------------------------------------
(* Properties.                                                               *)
CacheTypeOK ==
    /\ driver \in {"redis", "disabled"} /\ cacheClosed \in BOOLEAN
    /\ local \in [Keys -> Values \cup {None}] /\ remote \in [Keys -> Values \cup {None}]
    /\ {tagKeys, tagSet, gone} \subseteq SUBSET Keys

\* When nobody is working, both layers hold what the last operations allow: the
\* value of the last Set, nothing after a Delete or an invalidation, and older
\* values only if an operation failed or two of them overlapped.
LayersAgree ==
    /\ CacheTypeOK
    /\ Quiet => \A k \in Keys : {local[k], remote[k]} \subseteq legal[k] \cup {None}
=============================================================================
