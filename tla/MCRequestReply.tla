-------------------------- MODULE MCRequestReply --------------------------
EXTENDS RequestReply

MCKind == InfoKind \cup VolumeKind \cup BareKind \cup
          {"read", "write", "rename", "security", "set_security"}
MCLengths == {0, 7, 16, 24, 33, 104, 4097, 16385, 131073}
MCNameLengths == {0, 12}
MCNeededLengths == {0, 20, 4096}
\* Two requests at a time, on the kinds that use the pools differently
MCPoolKind == {"read", "ea", "security"}
MCPoolLengths == {104, 4097, 16385}
===========================================================================
