----------------------------- MODULE MCUsbRelease -----------------------------
(* Instances of UsbRelease for TLC.                                          *)
EXTENDS UsbRelease

CONSTANTS
  beta2, beta4,  \* two betas, which differ in their suffix only
  patch,         \* a later release with a part more
  odd,           \* a release whose version build-release.sh lets pass
  beta           \* a word in its core

\* 1.10-beta.2, 1.10-beta.4, 1.10.1 and 1.10.beta
Numbers ==
  [r \in Releases |->
     CASE r = beta2 -> [core |-> <<1, 10>>, suffix |-> <<"beta", 2>>]
       [] r = beta4 -> [core |-> <<1, 10>>, suffix |-> <<"beta", 4>>]
       [] r = patch -> [core |-> <<1, 10, 1>>, suffix |-> <<>>]
       [] r = odd   -> [core |-> <<1, 10, beta>>, suffix |-> <<>>]]

\* Two ways in which a file system may list a package.
OneOrder == <<"launcher", "version", "config", "manifest", "payload">>
BothOrders == {OneOrder, [i \in 1..5 |-> OneOrder[6 - i]]}
===============================================================================
