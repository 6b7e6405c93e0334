---------------------------- MODULE MCArgon2Fill ----------------------------
EXTENDS Argon2Fill, MCArgon2
=============================================================================
