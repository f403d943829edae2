---------------------------- MODULE MCGiftCatalog ----------------------------
(* Instances of GiftCatalog for TLC. *)
EXTENDS GiftCatalog, TLC

CONSTANTS g1, g2,  \* gifts
          p1, p2,  \* publishers
          s1       \* a scan

PublishedByOne == [g \in Gifts |-> p1]

Owned(gift, publisher, chain) == [giftId |-> gift, publisher |-> publisher, isFromBlockchain |-> chain]

(* The gift all publish, a rarer one, one minted on chain, and an impostor's. *)
SomeInventories ==
    {<<Owned(g1, p1, FALSE), Owned(g2, NoPublisher, FALSE)>>,
     <<Owned(g2, p1, TRUE), Owned(g1, NoPublisher, FALSE)>>,
     <<Owned(g1, p2, FALSE)>>}
=============================================================================
