------------------------------ MODULE CardStore ------------------------------
(***************************************************************************)
(* What the emulated memory cards promise the game, independently of how   *)
(* GCNCard.c keeps track of unsaved data: each slot is an image in RAM and *)
(* a copy of it on the storage device.  The game writes the image, the     *)
(* kernel copies whole images to the device (never a part that leaves some *)
(* written cell behind), and a power cut throws the images away.           *)
(***************************************************************************)
CONSTANTS
    CardSlot,   \* the slots
    CardImage   \* CardImage[s]: the contents a card in slot s may have

VARIABLES
    image,      \* image[s]: what the game reads from slot s
    durable     \* durable[s]: what survives a power cut

cvars == <<image, durable>>

CInit ==
    /\ image = [s \in CardSlot |-> image[s]]
    /\ \A s \in CardSlot : image[s] \in CardImage[s]
    /\ durable = image

\* The game writes one card; the copy on the device is not touched.
GameWrite(s) ==
    /\ \E new \in CardImage[s] : image' = [image EXCEPT ![s] = new]
    /\ UNCHANGED durable

\* Every written cell of every card reaches the device.
SaveAll ==
    /\ durable' = image
    /\ UNCHANGED image

PowerCut ==
    /\ image' = durable
    /\ UNCHANGED durable

CNext == (\E s \in CardSlot : GameWrite(s)) \/ SaveAll \/ PowerCut

CSpec == CInit /\ [][CNext]_cvars

=============================================================================
