------------------------------ MODULE MCRescans ------------------------------
\* Two roots on the system disk, one of them at a folder a drive may be mounted
\* over, and one drive with a root of its own.
EXTENDS Rescans

CONSTANTS pics, mnt, usb, m1, m2, a, b, fox, gnu, yak

MCHomeDir == {pics, mnt}
MCVolume == {usb}
MCStable == MCHomeDir
MCMountPoint == {mnt, m1, m2}
MCFirstMount == [v \in MCVolume |-> m1]
MCRequests == {MCHomeDir \cup MCVolume, {pics}}
MCName == {a, b}
MCFile == {fox, gnu, yak}
MCFirstTree == <<pics, a>> :> fox @@ <<pics, b>> :> gnu @@ <<mnt, a>> :> None @@ <<usb, a>> :> yak
MCDiskOf == [x \in MCFile |-> IF x = yak THEN usb ELSE Home]
MCRootOrder == <<pics, usb, mnt>>
MCScanned == {<<pics, a>>, <<usb, a>>}
MCHidden == {<<pics, b>>, <<mnt, a>>}
=============================================================================
