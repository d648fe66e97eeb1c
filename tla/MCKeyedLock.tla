----------------------------- MODULE MCKeyedLock -----------------------------
(* Three goroutines, two keys, an object for each goroutine to allocate.    *)
EXTENDS KeyedLock
=============================================================================
