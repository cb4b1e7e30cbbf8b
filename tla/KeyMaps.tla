-------------------------------- MODULE KeyMaps --------------------------------
(***************************************************************************)
(* The key tables: Windows virtual keys to KeyCode (HID usages), KeyCode   *)
(* back to virtual keys, KeyCode to evdev codes, and virtual keys to       *)
(* modifier flags. A table is written as the rows of consecutive arguments *)
(* it has in the code. KeyCode::Unknown and None are both 0.               *)
(***************************************************************************)
EXTENDS Integers, Sequences

Unknown == 0

(* enum KeyCode *)
KeyCode == {Unknown} \cup 4..49 \cup 51..82 \cup 224..231

LeftCtrl == 224
LeftShift == 225
LeftAlt == 226
LeftSuper == 227
RightCtrl == 228
RightShift == 229
RightAlt == 230
RightSuper == 231
Escape == 41

(* The entry of vk in a row whose first argument is first. *)
Entry(row, first, vk) == row[vk - first + 1]

EditingRow == <<44, 75, 78, 77, 74, 80, 82, 79, 81>>        \* VK_SPACE .. VK_DOWN
ModifierRow == <<225, 229, 224, 228, 226, 230>>             \* VK_LSHIFT .. VK_RMENU
Oem1Row == <<51, 46, 54, 45, 55, 56, 53>>                   \* VK_OEM_1 .. VK_OEM_3
Oem4Row == <<47, 49, 48, 52>>                               \* VK_OEM_4 .. VK_OEM_7

(* Mutant: a key without an entry is passed on, beyond the codes of KeyCode. *)
UnmappedBeyond(vk) == 256 + vk

Unmapped(vk) == Unknown

vk_to_keycode(vk) ==
  CASE vk \in 65..90   -> vk - 61
    [] vk \in 49..57   -> vk - 19
    [] vk = 48         -> 39
    [] vk \in 112..123 -> vk - 54
    [] vk \in 32..40   -> Entry(EditingRow, 32, vk)
    [] vk \in 160..165 -> Entry(ModifierRow, 160, vk)
    [] vk \in 186..192 -> Entry(Oem1Row, 186, vk)
    [] vk \in 219..222 -> Entry(Oem4Row, 219, vk)
    [] vk = 8  -> 42  [] vk = 9  -> 43  [] vk = 13 -> 40  [] vk = 19 -> 72
    [] vk = 20 -> 57  [] vk = 27 -> 41  [] vk = 44 -> 70  [] vk = 45 -> 73
    [] vk = 46 -> 76  [] vk = 91 -> 227 [] vk = 92 -> 231 [] vk = 145 -> 71
    [] OTHER -> Unmapped(vk)

EnterRow == <<13, 27, 8, 9, 32, 189, 187, 219, 221, 220>>   \* Enter .. Backslash
SemicolonRow == <<186, 222, 192, 188, 190, 191, 20>>        \* Semicolon .. CapsLock
NavigationRow == <<44, 145, 19, 45, 36, 33, 46, 35, 34, 39, 37, 40, 38>>
                                                            \* PrintScreen .. ArrowUp

(* Mutant: the right Shift is injected as the left one. *)
SidesRowLeft == <<162, 160, 164, 91, 163, 160, 165, 92>>

SidesRow == <<162, 160, 164, 91, 163, 161, 165, 92>>        \* LeftCtrl .. RightSuper

keycode_to_vk(c) ==
  CASE c \in 4..29    -> c + 61
    [] c \in 30..38   -> c + 19
    [] c = 39         -> 48
    [] c \in 40..49   -> Entry(EnterRow, 40, c)
    [] c \in 51..57   -> Entry(SemicolonRow, 51, c)
    [] c \in 58..69   -> c + 54
    [] c \in 70..82   -> Entry(NavigationRow, 70, c)
    [] c \in 224..231 -> Entry(SidesRow, 224, c)
    [] OTHER -> Unknown

(* evdev_code; hid_to_evdev guards it with the keyboard's usage range. *)
evdev_code(c) == c + 8

hid_to_evdev(c) == IF c \in 4..231 THEN evdev_code(c) ELSE Unknown

(* update_modifiers: one flag for the left and the right key *)
FlagOf(vk) ==
  CASE vk \in {160, 161, 16} -> "SHIFT"
    [] vk \in {162, 163, 17} -> "CTRL"
    [] vk \in {164, 165, 18} -> "ALT"
    [] vk \in {91, 92}       -> "SUPER"
    [] vk = 20               -> "CAPS_LOCK"
    [] vk = 144              -> "NUM_LOCK"
    [] OTHER                 -> "none"

Flags == {"SHIFT", "CTRL", "ALT", "SUPER", "CAPS_LOCK", "NUM_LOCK"}
=============================================================================
