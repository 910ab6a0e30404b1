CONSTANTS
    Boot = "App"
    Messages = {"App"}
SPECIFICATION Spec
PROPERTY WakeupsSent
CHECK_DEADLOCK FALSE
