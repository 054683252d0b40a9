---------------------------- MODULE MCKeyboard ----------------------------
(* Scancode sets for the model checker: a press and, where it matters, the *)
(* release (128 more) of keys of every kind the handler tells apart.       *)
EXTENDS Keyboard

\* Prefix, up arrow, q, and every modifier with its release.
MCScancodes == {EXTENDED_PREFIX, 72, 72 + 128, 16, 16 + 128, KEY_LSHIFT, KEY_LSHIFT + 128,
                KEY_CAPSLOCK, KEY_CAPSLOCK + 128, KEY_LCTRL, KEY_LCTRL + 128,
                KEY_LALT, KEY_LALT + 128}

\* The opening bracket and caps lock.
MCCapsScancodes == {26, KEY_LSHIFT, KEY_LSHIFT + 128, KEY_CAPSLOCK}
=============================================================================
