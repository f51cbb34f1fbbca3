-------------------------- MODULE MCMigrationTools --------------------------
(***************************************************************************)
(* Files and scripts for TLC.                                              *)
(***************************************************************************)
EXTENDS MigrationTools

\* What drizzle-kit writes or a developer makes of it: a fix with and one
\* without a warning, a statement the linter cannot fix, comments and blanks
\* between the markers, two statements with no marker or in one chunk.
DrizzleContents ==
  { <<<<"typed">>, <<"index">>>>,
    <<<<"index">>, <<"array">>, <<>>>>,
    <<<<"note">>, <<"note", "table">>>>,
    <<<<"table", "insert">>>>,
    <<<<"index", "insert">>, <<"note">>>>,
    <<<<"table", "note">>>> }

\* One DDL, several, data alone, settings, transactions of the script's own,
\* grants in transactions of their own and not.
PrismaScripts ==
  { <<>>,
    <<"index">>,
    <<"note", "table", "index">>,
    <<"insert", "insert">>,
    <<"typed", "array">>,
    <<"setLocal", "table", "typed">>,
    <<"begin", "table", "index", "commit">>,
    <<"setLocal", "table", "begin", "table", "index", "commit">>,
    <<"begin", "setLocal", "table", "commit", "table", "insert">>,
    <<"table", "grant">>,
    <<"begin", "table", "grant", "index", "commit">>,
    <<"begin", "grant", "commit", "begin", "table", "index", "commit">> }

\* The platform package; an override that points nowhere beside a good package.
TestHosts == { [env |-> "unset", platform |-> TRUE, path |-> FALSE],
               [env |-> "missing", platform |-> TRUE, path |-> TRUE] }

\* The hypothesis of TransformedWholeOrNotAtAll.
ASSUME NoneIsMixed == AuthorsDoNotMix
=============================================================================
