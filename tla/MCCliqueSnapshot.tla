-------------------------- MODULE MCCliqueSnapshot --------------------------
EXTENDS CliqueSnapshot
=============================================================================
