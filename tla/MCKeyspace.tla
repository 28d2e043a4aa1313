---------------------------- MODULE MCKeyspace ----------------------------
EXTENDS Keyspace
MCValues == {<<"i", 1>>, <<"s", 1>>}
MCTexts == {<<2>>, <<11>>}
============================================================================
