------------------------------ MODULE MCReconcile ------------------------------
\* Reconcile for TLC.
EXTENDS Reconcile
=============================================================================
