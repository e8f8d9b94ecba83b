---------------------------- MODULE MCChatIntake ----------------------------
EXTENDS ChatIntake
=============================================================================
