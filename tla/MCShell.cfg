SPECIFICATION ShellSpec
CONSTANTS
    a = a
    b = b
    Printable = {a, b}
    SHELL_BUFFER_SIZE = 5
    HISTORY_SIZE = 2
    REDRAW_COLUMNS = 2
    LINE_COLUMNS = 2
    FB_COLUMNS = 2
    SCAN_COLUMNS = 3
    ROWS = 3
    CLEAR_ROWS = 2
    MaxLines = 2
    MaxKeys = 10
SYMMETRY Letters
INVARIANTS ScreenShowsCommand
PROPERTIES ImplementsLineEditor
