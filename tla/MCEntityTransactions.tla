------------------------- MODULE MCEntityTransactions -------------------------
(* Instances of EntityTransactions for TLC. *)
EXTENDS EntityTransactions, TLC

(* The indexes as the migrations 0002 and 0005 create them, *)
MigratedSchema == {"conversation", "content", "snapshot"}
(* and the same with indexes the upserts can use. *)
UsableSchema == {"snapshot"}

(* The events, the accounts and the sessions are interchangeable. *)
Interchangeable ==
    Permutations(Events) \cup Permutations(Accounts) \cup Permutations(Sessions)

Migrated == {MigratedSchema}
Both == {MigratedSchema, UsableSchema}
=============================================================================
