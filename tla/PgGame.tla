------------------------------- MODULE PgGame -------------------------------
(***************************************************************************)
(* The unit of work against its promise: the tables, as committed, change  *)
(* as if every request took effect at once.                                *)
(***************************************************************************)
EXTENDS PgStore

\* Of a request in flight the serial game sees nothing: its tables are the
\* committed ones, and its ledger is what their entries add up to.
Promise == INSTANCE Game
    WITH wallets <- wallets, visitLog <- visitLog, plots <- plots,
         owner <- owner, locked <- locked, trades <- trades,
         receipts <- receipts, journal <- journal, granted <- granted

\* The committed tables of pgStore.js implement the serial game.  A request
\* that fails, is rejected, or is interrupted leaves no trace, except for the
\* receipt it may have claimed; a commit has the effect that its handler would
\* have had on the rows as they are at that moment.
TakesEffectAtOnce == Promise!Spec

=============================================================================
