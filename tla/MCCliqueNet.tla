---------------------------- MODULE MCCliqueNet ----------------------------
EXTENDS CliqueNet
=============================================================================
