SPECIFICATION Spec
CONSTANTS
    Filled = {"files", "prompts", "organization", "roles", "issues", "user_preferences", "alex_chat_messages"}
    Targets = {0, 36}
    Members = {"ann", "bob"}
    Me = "ann"
    MaxRows = 2
    MaxChanges = 2
INVARIANTS
    HeadApplies
CHECK_DEADLOCK FALSE
