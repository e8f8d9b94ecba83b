---------------------------- MODULE MCMailIntake ----------------------------
EXTENDS MailIntake, TLC

EpochSymmetry == Permutations(Epochs)
=============================================================================
