----------------------------- MODULE MCMigration -----------------------------
\* TLC instances of the migration of deprecated spendable outputs.
EXTENDS Migration
==============================================================================
