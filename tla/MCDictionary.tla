---------------------------- MODULE MCDictionary ----------------------------
EXTENDS Dictionary

SmallKeys == {1, 2, 3, 14}
AllKeys == 1 .. 14
=============================================================================
