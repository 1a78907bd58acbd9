--------------------------- MODULE MCNotification ---------------------------
(* The notification service on small instances. *)
EXTENDS Notification

AppSequences == {set_red, success, display_lock}
NoSequences  == {}
UsbUart      == {display_lock, display_unlock}   \* gpio_scene_usb_uart.c

ASSUME AppCallsEndAssumption == AppCallsEnd

============================================================================
