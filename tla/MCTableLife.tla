------------------------------ MODULE MCTableLife ------------------------------
\* TableLife for TLC.
EXTENDS TableLife

\* Past a race that the safety properties exclude nothing more is explored.
Unraced == ~raced
=============================================================================
