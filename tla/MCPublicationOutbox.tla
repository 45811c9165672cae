------------------------ MODULE MCPublicationOutbox ------------------------
EXTENDS PublicationOutbox
CONSTANTS s1, s2
MCSources == {s1, s2}
MCOutside == {s1}
NoFaults == {}
AllFaults == {"append", "prepare", "unlink", "publish", "validate", "persist",
              "bind"}
RetriedFaults == {"unlink", "publish", "bind"}
=============================================================================
