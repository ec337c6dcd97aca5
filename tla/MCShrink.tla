------------------------------ MODULE MCShrink ------------------------------
\* Small scenarios for the search: see MCShrink.cfg.
EXTENDS Shrink

=============================================================================
