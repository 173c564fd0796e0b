---------------------------- MODULE MCCacheClient ----------------------------
(* Instances of CacheClient for TLC: the versions cross from 9 to 10.        *)
EXTENDS CacheClient

CONSTANTS w, r

MCWriters == {w}
MCReaders == {r}
MCNoReaders == {}
===============================================================================
